---- MODULE Spec2Model ----
(***************************************************************************)
(* Paper-trading core of AlgoBlocks: the in-memory session store, the      *)
(* strategy interpreter (processStrategy), the action generator            *)
(* (executeAction), the portfolio simulator (executeSignals,               *)
(* updatePositions, updateMetrics) and the HTTP controllers that drive     *)
(* them.                                                                   *)
(*                                                                         *)
(* Numbers.  Prices and quantities are integers.  A JavaScript number that *)
(* results from a division (averageCost, profitLoss, percentReturn,        *)
(* winRate) is an exact fraction <<n, d>> in lowest terms with d > 0; the  *)
(* value NaN (0/0) is the pair <<0, 0>>.  A risk level is a whole number   *)
(* of percent (0.02 is 2).  Settings that JavaScript tests for truthiness  *)
(* use 0 for "absent".  Times: startTime, endTime, the time inside a       *)
(* session id and lastUpdated of a position are modelled; the time of a    *)
(* log entry, openTime of a position and lastUpdated of a session are not. *)
(***************************************************************************)
EXTENDS Integers, Sequences, FiniteSets, TLC

VARIABLES
    paperTradingSessions,   \* the Map sessionId -> session of the service
    clock,                  \* Date.now()
    requests,               \* update requests suspended in the controller
    response,               \* the error of the last response, "" for success
    call,                   \* a helper function applied on its own: its arguments
    result                  \* what that application returned

vars == <<paperTradingSessions, clock, requests, response, call, result>>

\* ------------------------------------------------------------------ bounds
MaxBlocks == 4
MaxCandles == 4
MaxPeriod == 3
MaxClock == 1
MaxConcurrent == 2
MaxHistory == 2
MaxPairSessions == 2
MaxSessions == 1
MaxRequests == 1
MaxTransactions == 3
MaxErrors == 2

\* ------------------------------------------------------- program constants
DefaultInitialCapital == 10000
DefaultRiskPerTrade == 2
DefaultBuyRiskLevel == 2
DefaultSellPercentage == 100
DefaultSmaPeriod == 14
DefaultEmaPeriod == 12
DefaultRsiPeriod == 14
DefaultFastPeriod == 12
DefaultSlowPeriod == 26
DefaultSignalPeriod == 9
DefaultBollingerPeriod == 20

NoTime == -1

Users == {"alice", "bob"}

\* ------------------------------------------------------ JavaScript numbers
Abs(n) == IF n < 0 THEN -n ELSE n

RECURSIVE Gcd(_, _)
Gcd(a, b) == IF b = 0 THEN a ELSE Gcd(b, a % b)

NaN == <<0, 0>>
IsNaN(r) == r[2] = 0

Frac(n, d) ==
    IF d = 0 THEN NaN
    ELSE LET g == Gcd(Abs(n), Abs(d))
             s == IF d < 0 THEN -1 ELSE 1
         IN  <<(s * n) \div g, (s * d) \div g>>

Num(n) == <<n, 1>>
RAdd(a, b) == IF IsNaN(a) \/ IsNaN(b) THEN NaN
              ELSE Frac(a[1] * b[2] + b[1] * a[2], a[2] * b[2])
RSub(a, b) == IF IsNaN(a) \/ IsNaN(b) THEN NaN
              ELSE Frac(a[1] * b[2] - b[1] * a[2], a[2] * b[2])
RMul(a, b) == IF IsNaN(a) \/ IsNaN(b) THEN NaN
              ELSE Frac(a[1] * b[1], a[2] * b[2])
RDiv(a, b) == IF IsNaN(a) \/ IsNaN(b) THEN NaN
              ELSE Frac(a[1] * b[2], a[2] * b[1])
\* a > 0 and a <= 0 of JavaScript: both false on NaN
RGtZero(a) == ~IsNaN(a) /\ a[1] > 0
RLeZero(a) == ~IsNaN(a) /\ a[1] <= 0

\* ------------------------------------------------------------- market data
Candle(o, h, l, c) == [open |-> o, high |-> h, low |-> l, close |-> c]

\* what marketService.getMarketData can resolve to for one symbol
Quotes ==
    { [price |-> 100, history |-> <<Candle(90, 100, 90, 100)>>],
      [price |-> 300, history |-> <<>>] }

\* quotes with two candles of history: closes 120, 130 and closes 100, 90
TrendQuotes ==
    { [price |-> 130, history |-> <<Candle(100, 120, 100, 120),
                                    Candle(120, 130, 120, 130)>>],
      [price |-> 90, history |-> <<Candle(100, 100, 100, 100),
                                   Candle(100, 100, 90, 90)>>] }

\* marketData is the object the controller fills, in insertion order:
\* a sequence of [symbol, quote] entries, one per symbol at most
RECURSIVE MdIndex(_, _, _)
MdIndex(marketData, symbol, i) ==
    IF i > Len(marketData) THEN 0
    ELSE IF marketData[i].symbol = symbol THEN i
    ELSE MdIndex(marketData, symbol, i + 1)

\* marketData[symbol] is defined
MdHas(marketData, symbol) == MdIndex(marketData, symbol, 1) # 0
\* marketData[symbol]
MdGet(marketData, symbol) == marketData[MdIndex(marketData, symbol, 1)].quote
\* marketData[symbol]?.price || 0
MdPrice(marketData, symbol) ==
    IF MdHas(marketData, symbol) THEN MdGet(marketData, symbol).price ELSE 0

\* marketData[symbol] = data
MdPut(marketData, symbol, data) ==
    IF MdHas(marketData, symbol)
    THEN [marketData EXCEPT ![MdIndex(marketData, symbol, 1)].quote = data]
    ELSE Append(marketData, [symbol |-> symbol, quote |-> data])

\* ------------------------------------------------------------------ values
Undefined == [def |-> FALSE, v |-> NaN]
Def(r) == [def |-> TRUE, v |-> r]

RLt(a, b) == ~IsNaN(a) /\ ~IsNaN(b) /\ a[1] * b[2] < b[1] * a[2]
RLe(a, b) == ~IsNaN(a) /\ ~IsNaN(b) /\ a[1] * b[2] <= b[1] * a[2]
REq(a, b) == ~IsNaN(a) /\ ~IsNaN(b) /\ a = b

\* -------------------------------------------------------- indicator engine
RECURSIVE SumCloses(_, _, _)
SumCloses(history, from, to) ==
    IF from > to THEN 0
    ELSE history[from].close + SumCloses(history, from + 1, to)

\* calculateSMA: one mean per window, from index period-1 onward
calculateSMA(priceData, settings) ==
    LET period == IF settings.period # 0 THEN settings.period
                  ELSE DefaultSmaPeriod
        n == Len(priceData.history)
    IN  IF n < period THEN [threw |-> TRUE]
        ELSE LET smaValues ==
                    [k \in 1..(n - period + 1) |->
                        Frac(SumCloses(priceData.history, k, k + period - 1),
                             period)]
             IN  [threw |-> FALSE,
                  value |-> smaValues[Len(smaValues)],
                  history |-> smaValues,
                  period |-> period]

\* priceData.history.map((candle) => candle.close); priceField is close
ClosePrices(history) == [i \in 1..Len(history) |-> Num(history[i].close)]

Min(a, b) == IF a < b THEN a ELSE b

\* values.slice(from - 1, to).reduce((sum, v) => sum + v, 0)
RECURSIVE SumValues(_, _, _)
SumValues(values, from, to) ==
    IF from > Min(to, Len(values)) THEN Num(0)
    ELSE RAdd(values[from], SumValues(values, from + 1, to))

\* the loop of calculateEMA, and of the signal line of calculateMACD
RECURSIVE EmaLoop(_, _, _, _)
EmaLoop(prices, i, multiplier, emaValues) ==
    IF i > Len(prices) THEN emaValues
    ELSE LET last == emaValues[Len(emaValues)]
         IN  EmaLoop(prices, i + 1, multiplier,
                     Append(emaValues,
                            RAdd(RMul(RSub(prices[i], last), multiplier),
                                 last)))

calculateEMA(priceData, settings) ==
    LET period == IF settings.period # 0 THEN settings.period
                  ELSE DefaultEmaPeriod
        prices == ClosePrices(priceData.history)
    IN  IF Len(prices) < period THEN [threw |-> TRUE]
        ELSE LET multiplier == Frac(2, period + 1)
                 initialSMA == RDiv(SumValues(prices, 1, period), Num(period))
                 emaValues == EmaLoop(prices, period + 1, multiplier,
                                      <<initialSMA>>)
             IN  [threw |-> FALSE,
                  value |-> emaValues[Len(emaValues)],
                  history |-> emaValues,
                  period |-> period]

\* 100 - 100 / (1 + avgGain / (avgLoss === 0 ? 0.001 : avgLoss))
Rsi(avgGain, avgLoss) ==
    LET rs == RDiv(avgGain, IF avgLoss = Num(0) THEN Frac(1, 1000)
                            ELSE avgLoss)
    IN  RSub(Num(100), RDiv(Num(100), RAdd(Num(1), rs)))

\* the smoothing loop of calculateRSI
RECURSIVE RsiLoop(_, _, _, _, _, _, _)
RsiLoop(gains, losses, i, period, avgGain, avgLoss, rsiValues) ==
    IF i > Len(gains) THEN rsiValues
    ELSE LET gain == RDiv(RAdd(RMul(avgGain, Num(period - 1)), gains[i]),
                          Num(period))
             loss == RDiv(RAdd(RMul(avgLoss, Num(period - 1)), losses[i]),
                          Num(period))
         IN  RsiLoop(gains, losses, i + 1, period, gain, loss,
                     Append(rsiValues, Rsi(gain, loss)))

\* the return value of calculateRSI
RsiResult(rsiValues, period) ==
    [threw |-> FALSE,
     value |-> rsiValues[Len(rsiValues)],
     history |-> rsiValues,
     period |-> period]

\* the first RSI value, then the smoothed ones
RsiValues(gains, losses, period, avgGain, avgLoss) ==
    RsiResult(RsiLoop(gains, losses, period + 1, period, avgGain, avgLoss,
                      <<Rsi(avgGain, avgLoss)>>),
              period)

\* average gain and average loss of the first period changes
RsiAverages(gains, losses, period) ==
    RsiValues(gains, losses, period,
              RDiv(SumValues(gains, 1, period), Num(period)),
              RDiv(SumValues(losses, 1, period), Num(period)))

\* gains and losses of the price changes
RsiChanges(prices, period) ==
    RsiAverages([i \in 1..(Len(prices) - 1) |->
                    IF prices[i + 1][1] > prices[i][1]
                    THEN RSub(prices[i + 1], prices[i]) ELSE Num(0)],
                [i \in 1..(Len(prices) - 1) |->
                    IF prices[i + 1][1] < prices[i][1]
                    THEN RSub(prices[i], prices[i + 1]) ELSE Num(0)],
                period)

\* an RSI that asks for period prices only
calculateRSIOnPeriod(priceData, settings) ==
    IF Len(priceData.history)
            < (IF settings.period # 0 THEN settings.period
               ELSE DefaultRsiPeriod)
    THEN [threw |-> TRUE]
    ELSE RsiChanges(ClosePrices(priceData.history),
                    IF settings.period # 0 THEN settings.period
                    ELSE DefaultRsiPeriod)

calculateRSI(priceData, settings) ==
    IF Len(priceData.history)
            < (IF settings.period # 0 THEN settings.period
               ELSE DefaultRsiPeriod) + 1
    THEN [threw |-> TRUE]
    ELSE RsiChanges(ClosePrices(priceData.history),
                    IF settings.period # 0 THEN settings.period
                    ELSE DefaultRsiPeriod)

\* the last element of an array: undefined when the array is empty
LastOf(values) ==
    IF Len(values) = 0 THEN Undefined ELSE Def(values[Len(values)])

\* the return value of calculateMACD
MacdResult(macdLine, signalLine, histogram) ==
    [threw |-> FALSE,
     value |-> [macd |-> LastOf(macdLine),
                signal |-> LastOf(signalLine),
                histogram |-> LastOf(histogram)],
     history |-> [macd |-> macdLine,
                  signal |-> signalLine,
                  histogram |-> histogram]]

\* histogram = MACD line - signal line, as far as both reach
MacdHistogram(macdLine, signalLine) ==
    MacdResult(macdLine, signalLine,
               [i \in 1..Min(Len(macdLine), Len(signalLine)) |->
                    RSub(macdLine[i], signalLine[i])])

\* signal line = EMA of the MACD line, empty when the line is too short
MacdSignal(macdLine, signalPeriod) ==
    MacdHistogram(macdLine,
                  IF Len(macdLine) >= signalPeriod
                  THEN EmaLoop(macdLine, signalPeriod + 1,
                               Frac(2, signalPeriod + 1),
                               <<RDiv(SumValues(macdLine, 1, signalPeriod),
                                      Num(signalPeriod))>>)
                  ELSE <<>>)

\* MACD line = fast EMA - slow EMA, as far as both reach; a throw of
\* calculateEMA goes through
MacdLine(fastEMA, slowEMA, signalPeriod) ==
    IF fastEMA.threw \/ slowEMA.threw THEN [threw |-> TRUE]
    ELSE MacdSignal([i \in 1..Min(Len(fastEMA.history),
                                  Len(slowEMA.history)) |->
                        RSub(fastEMA.history[i], slowEMA.history[i])],
                    signalPeriod)

MacdPeriods(priceData, fastPeriod, slowPeriod, signalPeriod) ==
    IF Len(priceData.history) < slowPeriod + signalPeriod
    THEN [threw |-> TRUE]
    ELSE MacdLine(calculateEMA(priceData, [period |-> fastPeriod]),
                  calculateEMA(priceData, [period |-> slowPeriod]),
                  signalPeriod)

calculateMACD(priceData, settings) ==
    MacdPeriods(priceData,
                IF settings.fastPeriod # 0 THEN settings.fastPeriod
                ELSE DefaultFastPeriod,
                IF settings.slowPeriod # 0 THEN settings.slowPeriod
                ELSE DefaultSlowPeriod,
                IF settings.signalPeriod # 0 THEN settings.signalPeriod
                ELSE DefaultSignalPeriod)

\* the variance of the window of period prices that ends at the i-th
Variance(prices, i, period, mean) ==
    RDiv(SumValues([k \in 1..Len(prices) |->
                        RMul(RSub(prices[k], mean), RSub(prices[k], mean))],
                   i - period + 1, i),
         Num(period))

\* the bands are middle +- deviations * Math.sqrt(variance); a square root
\* has no exact value, so the result holds the variance of each window
calculateBollingerBands(priceData, settings) ==
    LET period == IF settings.period # 0 THEN settings.period
                  ELSE DefaultBollingerPeriod
        prices == ClosePrices(priceData.history)
    IN  IF Len(prices) < period THEN [threw |-> TRUE]
        ELSE LET sma == calculateSMA(priceData, [period |-> period])
                 variances ==
                    [k \in 1..(Len(prices) - period + 1) |->
                        Variance(prices, k + period - 1, period,
                                 sma.history[k])]
             IN  [threw |-> FALSE,
                  value |-> [middle |-> sma.value,
                             variance |-> LastOf(variances)],
                  history |-> [middle |-> sma.history,
                               variance |-> variances]]

applyIndicator(block, marketData) ==
    LET settings == block.settings
        hasSymbol == settings.symbol # ""
    IN  IF ~hasSymbol /\ Len(marketData) = 0 THEN [threw |-> TRUE]
        ELSE LET symbol == IF hasSymbol THEN settings.symbol
                           ELSE marketData[1].symbol
             IN  IF ~MdHas(marketData, symbol) THEN [threw |-> TRUE]
                 ELSE CASE block.subtype = "sma" ->
                            calculateSMA(MdGet(marketData, symbol), settings)
                        [] block.subtype = "ema" ->
                            calculateEMA(MdGet(marketData, symbol), settings)
                        [] block.subtype = "rsi" ->
                            calculateRSI(MdGet(marketData, symbol), settings)
                        [] block.subtype = "macd" ->
                            calculateMACD(MdGet(marketData, symbol), settings)
                        [] block.subtype = "bb" ->
                            calculateBollingerBands(
                                MdGet(marketData, symbol), settings)
                        [] OTHER -> [threw |-> TRUE]

\* ------------------------------------------------------ condition evaluator
getSourceValue(sourceType, source, marketData, indicators) ==
    CASE sourceType = "indicator" ->
            IF source \in DOMAIN indicators
            THEN Def(indicators[source].value) ELSE Undefined
      [] sourceType = "price" ->
            IF ~MdHas(marketData, source[1]) THEN Undefined
            ELSE LET history == MdGet(marketData, source[1]).history
                 IN  IF Len(history) = 0 THEN Undefined
                     ELSE Def(Num(history[Len(history)][source[2]]))
      [] sourceType = "value" -> Def(Num(source))
      [] OTHER -> Undefined

getPreviousSourceValue(sourceType, source, marketData, indicators) ==
    CASE sourceType = "indicator" ->
            IF source \notin DOMAIN indicators THEN Undefined
            ELSE IF Len(indicators[source].history) < 2 THEN Undefined
            ELSE Def(indicators[source].history[
                        Len(indicators[source].history) - 1])
      [] sourceType = "price" ->
            IF ~MdHas(marketData, source[1]) THEN Undefined
            ELSE LET history == MdGet(marketData, source[1]).history
                 IN  IF Len(history) < 2 THEN Undefined
                     ELSE Def(Num(history[Len(history) - 1][source[2]]))
      [] sourceType = "value" -> Def(Num(source))
      [] OTHER -> Undefined

\* a crossover that needs source1 strictly on the other side before
evaluateCrossoverStrict(settings, marketData, indicators) ==
    LET value1 == getSourceValue(settings.source1Type, settings.source1,
                                 marketData, indicators)
        value2 == getSourceValue(settings.source2Type, settings.source2,
                                 marketData, indicators)
        prevValue1 == getPreviousSourceValue(settings.source1Type,
                            settings.source1, marketData, indicators)
        prevValue2 == getPreviousSourceValue(settings.source2Type,
                            settings.source2, marketData, indicators)
        up == RLt(prevValue1.v, prevValue2.v) /\ RLt(value2.v, value1.v)
        down == RLt(prevValue2.v, prevValue1.v) /\ RLt(value1.v, value2.v)
    IN  IF ~value1.def \/ ~value2.def \/ ~prevValue1.def \/ ~prevValue2.def
        THEN FALSE
        ELSE CASE settings.direction \in {"above", "bullish"} -> up
               [] settings.direction \in {"below", "bearish"} -> down
               [] settings.direction = "any" -> up \/ down
               [] OTHER -> FALSE

evaluateCrossover(settings, marketData, indicators) ==
    LET value1 == getSourceValue(settings.source1Type, settings.source1,
                                 marketData, indicators)
        value2 == getSourceValue(settings.source2Type, settings.source2,
                                 marketData, indicators)
        prevValue1 == getPreviousSourceValue(settings.source1Type,
                            settings.source1, marketData, indicators)
        prevValue2 == getPreviousSourceValue(settings.source2Type,
                            settings.source2, marketData, indicators)
        up == RLe(prevValue1.v, prevValue2.v) /\ RLt(value2.v, value1.v)
        down == RLe(prevValue2.v, prevValue1.v) /\ RLt(value1.v, value2.v)
    IN  IF ~value1.def \/ ~value2.def \/ ~prevValue1.def \/ ~prevValue2.def
        THEN FALSE
        ELSE CASE settings.direction \in {"above", "bullish"} -> up
               [] settings.direction \in {"below", "bearish"} -> down
               [] settings.direction = "any" -> up \/ down
               [] OTHER -> FALSE

evaluateThreshold(settings, marketData, indicators) ==
    LET sourceValue == getSourceValue(settings.sourceType, settings.source,
                                      marketData, indicators)
        threshold == Num(settings.value)
    IN  IF ~sourceValue.def THEN FALSE
        ELSE CASE settings.operator \in {"greater_than", ">"} ->
                    RLt(threshold, sourceValue.v)
               [] settings.operator \in {"less_than", "<"} ->
                    RLt(sourceValue.v, threshold)
               [] settings.operator \in {"equals", "==", "==="} ->
                    REq(sourceValue.v, threshold)
               [] settings.operator \in {"greater_than_equals", ">="} ->
                    RLe(threshold, sourceValue.v)
               [] settings.operator \in {"less_than_equals", "<="} ->
                    RLe(sourceValue.v, threshold)
               [] OTHER -> FALSE

Max(a, b) == IF a > b THEN a ELSE b

\* the loop of higher_high / lower_low: i from 2 to lookbackPeriod + 1
RECURSIVE ExtremeLoop(_, _, _, _)
ExtremeLoop(history, i, lookbackPeriod, field) ==
    LET n == Len(history) IN
    IF i > lookbackPeriod + 1 \/ n < i THEN TRUE
    ELSE IF field = "high" /\ history[n].high <= history[n - i + 1].high
         THEN FALSE
    ELSE IF field = "low" /\ history[n].low >= history[n - i + 1].low
         THEN FALSE
    ELSE ExtremeLoop(history, i + 1, lookbackPeriod, field)

evaluatePriceAction(settings, marketData, indicators) ==
    IF ~MdHas(marketData, settings.symbol) THEN FALSE
    ELSE LET history == MdGet(marketData, settings.symbol).history IN
    IF Len(history) < 2 THEN FALSE
    ELSE
    LET current == history[Len(history)]
        previous == history[Len(history) - 1]
        body == Abs(current.close - current.open)
        lowerWick == Min(current.open, current.close) - current.low
        upperWick == current.high - Max(current.open, current.close)
        lookbackPeriod == IF settings.lookbackPeriod = 0 THEN 1
                          ELSE settings.lookbackPeriod
    IN  CASE settings.patternType = "bullish_candle" ->
                current.close > current.open
          [] settings.patternType = "bearish_candle" ->
                current.close < current.open
          [] settings.patternType = "doji" ->
                RLt(Frac(body, current.high - current.low), Frac(1, 10))
          [] settings.patternType = "hammer" ->
                /\ current.close > current.open
                /\ lowerWick > 2 * body
                /\ upperWick < body
          [] settings.patternType = "engulfing_bullish" ->
                /\ current.close > current.open
                /\ previous.close < previous.open
                /\ current.open < previous.close
                /\ current.close > previous.open
          [] settings.patternType = "engulfing_bearish" ->
                /\ current.close < current.open
                /\ previous.close > previous.open
                /\ current.open > previous.close
                /\ current.close < previous.open
          [] settings.patternType = "higher_high" ->
                ExtremeLoop(history, 2, lookbackPeriod, "high")
          [] settings.patternType = "lower_low" ->
                ExtremeLoop(history, 2, lookbackPeriod, "low")
          [] settings.patternType = "higher_close" ->
                current.close > previous.close
          [] settings.patternType = "lower_close" ->
                current.close < previous.close
          [] OTHER -> FALSE

evaluateCondition(block, marketData, indicators) ==
    CASE block.subtype = "crossover" ->
            [threw |-> FALSE,
             result |-> evaluateCrossover(block.settings, marketData,
                                          indicators)]
      [] block.subtype = "threshold" ->
            [threw |-> FALSE,
             result |-> evaluateThreshold(block.settings, marketData,
                                          indicators)]
      [] block.subtype = "price_action" ->
            [threw |-> FALSE,
             result |-> evaluatePriceAction(block.settings, marketData,
                                            indicators)]
      [] OTHER -> [threw |-> TRUE, result |-> FALSE]

\* --------------------------------------------------------- action generator
\* settings.price = 0, settings.quantity = 0, settings.riskLevel = 0 and
\* settings.percentage = 0 stand for an absent setting
executeBuyOrder(settings, marketData, indicators) ==
    LET symbol == IF settings.symbol = "" THEN "SPY" ELSE settings.symbol
        orderType == IF settings.orderType = "" THEN "market"
                     ELSE settings.orderType
        riskLevel == IF settings.riskLevel = 0 THEN DefaultBuyRiskLevel
                     ELSE settings.riskLevel
        fromMarket == settings.price = 0 \/ orderType = "market"
    IN  IF fromMarket /\ MdPrice(marketData, symbol) = 0
        THEN [null |-> TRUE]
        ELSE [null |-> FALSE,
              action |-> "buy",
              symbol |-> symbol,
              orderType |-> orderType,
              price |-> IF fromMarket THEN MdPrice(marketData, symbol)
                        ELSE settings.price,
              quantity |-> settings.quantity,
              riskLevel |-> riskLevel]

executeSellOrder(settings, marketData, indicators) ==
    LET symbol == IF settings.symbol = "" THEN "SPY" ELSE settings.symbol
        orderType == IF settings.orderType = "" THEN "market"
                     ELSE settings.orderType
        percentage == IF settings.percentage = 0 THEN DefaultSellPercentage
                      ELSE settings.percentage
        fromMarket == settings.price = 0 \/ orderType = "market"
    IN  IF fromMarket /\ MdPrice(marketData, symbol) = 0
        THEN [null |-> TRUE]
        ELSE [null |-> FALSE,
              action |-> "sell",
              symbol |-> symbol,
              orderType |-> orderType,
              price |-> IF fromMarket THEN MdPrice(marketData, symbol)
                        ELSE settings.price,
              quantity |-> settings.quantity,
              percentage |-> percentage]

executeStopLoss(settings, marketData, indicators) ==
    LET symbol == IF settings.symbol = "" THEN "SPY" ELSE settings.symbol
    IN  IF MdPrice(marketData, symbol) = 0 THEN [null |-> TRUE]
        ELSE [null |-> FALSE,
              action |-> "stop_loss",
              symbol |-> symbol,
              type |-> "price",
              value |-> settings.value,
              price |-> MdPrice(marketData, symbol)]

executeTakeProfit(settings, marketData, indicators) ==
    LET symbol == IF settings.symbol = "" THEN "SPY" ELSE settings.symbol
    IN  IF MdPrice(marketData, symbol) = 0 THEN [null |-> TRUE]
        ELSE [null |-> FALSE,
              action |-> "take_profit",
              symbol |-> symbol,
              type |-> "price",
              value |-> settings.value,
              price |-> MdPrice(marketData, symbol)]

executeAction(block, marketData, indicators) ==
    CASE block.subtype = "buy" ->
            executeBuyOrder(block.settings, marketData, indicators)
      [] block.subtype = "sell" ->
            executeSellOrder(block.settings, marketData, indicators)
      [] block.subtype = "stop_loss" ->
            executeStopLoss(block.settings, marketData, indicators)
      [] block.subtype = "take_profit" ->
            executeTakeProfit(block.settings, marketData, indicators)
      [] OTHER -> [null |-> TRUE]

\* ----------------------------------------------------- strategy interpreter
\* first loop of processStrategy: indicator blocks, in block order
RECURSIVE IndicatorLoop(_, _, _, _)
IndicatorLoop(blocks, i, marketData, indicators) ==
    IF i > Len(blocks) THEN [threw |-> FALSE, indicators |-> indicators]
    ELSE IF blocks[i].type # "indicator"
         THEN IndicatorLoop(blocks, i + 1, marketData, indicators)
    ELSE LET indicatorResult == applyIndicator(blocks[i], marketData)
         IN  IF indicatorResult.threw
             THEN [threw |-> TRUE, indicators |-> indicators]
             ELSE IndicatorLoop(blocks, i + 1, marketData,
                    [id \in DOMAIN indicators \cup {blocks[i].id} |->
                        IF id = blocks[i].id
                        THEN [value |-> indicatorResult.value,
                              history |-> indicatorResult.history,
                              period |-> indicatorResult.period]
                        ELSE indicators[id]])

\* inner loop: one signal per action block that yields one, in block order
RECURSIVE ActionLoop(_, _, _, _)
ActionLoop(blocks, j, marketData, indicators) ==
    IF j > Len(blocks) THEN <<>>
    ELSE IF blocks[j].type # "action"
         THEN ActionLoop(blocks, j + 1, marketData, indicators)
    ELSE LET signal == executeAction(blocks[j], marketData, indicators)
             rest == ActionLoop(blocks, j + 1, marketData, indicators)
         IN  IF signal.null THEN rest ELSE <<signal>> \o rest

RECURSIVE ConditionLoopConnected(_, _, _, _, _)
\* a condition loop that runs only the action blocks placed after the
\* condition that came out true
ConditionLoopConnected(blocks, i, marketData, indicators, signals) ==
    IF i > Len(blocks) THEN [threw |-> FALSE, signals |-> signals]
    ELSE IF blocks[i].type # "condition"
         THEN ConditionLoopConnected(blocks, i + 1, marketData, indicators,
                                     signals)
    ELSE LET conditionResult ==
                evaluateCondition(blocks[i], marketData, indicators)
         IN  IF conditionResult.threw
             THEN [threw |-> TRUE, signals |-> signals]
             ELSE ConditionLoopConnected(blocks, i + 1, marketData,
                    indicators,
                    IF conditionResult.result
                    THEN signals \o ActionLoop(blocks, i + 1, marketData,
                                               indicators)
                    ELSE signals)

\* second loop of processStrategy: condition blocks, in block order
RECURSIVE ConditionLoop(_, _, _, _, _)
ConditionLoop(blocks, i, marketData, indicators, signals) ==
    IF i > Len(blocks) THEN [threw |-> FALSE, signals |-> signals]
    ELSE IF blocks[i].type # "condition"
         THEN ConditionLoop(blocks, i + 1, marketData, indicators, signals)
    ELSE LET conditionResult ==
                evaluateCondition(blocks[i], marketData, indicators)
         IN  IF conditionResult.threw
             THEN [threw |-> TRUE, signals |-> signals]
             ELSE ConditionLoop(blocks, i + 1, marketData, indicators,
                    IF conditionResult.result
                    THEN signals \o ActionLoop(blocks, 1, marketData,
                                               indicators)
                    ELSE signals)

NoIndicators == [id \in {} |-> 0]

\* an interpreter that, when a block throws, hands back the signals
\* generated before the throw
processStrategyKeepsSignals(strategy, marketData) ==
    LET ind == IndicatorLoop(strategy.blocks, 1, marketData, NoIndicators)
        cond == ConditionLoop(strategy.blocks, 1, marketData,
                              ind.indicators, <<>>)
    IN  IF ind.threw
        THEN [signals |-> <<>>, indicators |-> NoIndicators, threw |-> TRUE]
        ELSE [signals |-> cond.signals, indicators |-> ind.indicators,
              threw |-> cond.threw]

\* threw records that the catch block ran; the code returns only
\* signals and indicators
processStrategy(strategy, marketData) ==
    LET ind == IndicatorLoop(strategy.blocks, 1, marketData, NoIndicators)
        cond == ConditionLoop(strategy.blocks, 1, marketData,
                              ind.indicators, <<>>)
    IN  IF ind.threw \/ cond.threw
        THEN [signals |-> <<>>, indicators |-> NoIndicators, threw |-> TRUE]
        ELSE [signals |-> cond.signals, indicators |-> ind.indicators,
              threw |-> FALSE]

\* ------------------------------------------------------ portfolio simulator
RECURSIVE FindPosition(_, _, _)
\* positions.findIndex(p => p.symbol === symbol), 1-based, 0 for -1
FindPosition(positions, symbol, i) ==
    IF i > Len(positions) THEN 0
    ELSE IF positions[i].symbol = symbol THEN i
    ELSE FindPosition(positions, symbol, i + 1)

\* positions.splice(i, 1)
Splice(positions, i) ==
    SubSeq(positions, 1, i - 1) \o SubSeq(positions, i + 1, Len(positions))

\* an error log that keeps the last error only
PushErrorKeepsLast(session, kind) ==
    [session EXCEPT !.errors = <<[message |-> kind]>>]

PushError(session, kind) ==
    [session EXCEPT !.errors = Append(@, [message |-> kind])]

\* const executionPrice = price || marketData[symbol]?.price || 0
ExecutionPrice(signal, marketData) ==
    IF signal.price # 0 THEN signal.price
    ELSE MdPrice(marketData, signal.symbol)

\* a quantity sized on the capital the session started with
TradeQuantityOnCapital(session, signal, executionPrice) ==
    LET quantity == IF "quantity" \in DOMAIN signal THEN signal.quantity
                    ELSE 0
        riskLevel == IF "riskLevel" \in DOMAIN signal THEN signal.riskLevel
                     ELSE 0
        risk == IF riskLevel # 0 THEN riskLevel
                ELSE session.settings.riskPerTrade
    IN  IF quantity # 0 THEN quantity
        ELSE (session.initialCapital * risk) \div (100 * executionPrice)

\* quantity, else floor(cashBalance * (riskLevel || riskPerTrade) / price)
TradeQuantity(session, signal, executionPrice) ==
    LET quantity == IF "quantity" \in DOMAIN signal THEN signal.quantity
                    ELSE 0
        riskLevel == IF "riskLevel" \in DOMAIN signal THEN signal.riskLevel
                     ELSE 0
        risk == IF riskLevel # 0 THEN riskLevel
                ELSE session.settings.riskPerTrade
    IN  IF quantity # 0 THEN quantity
        ELSE (session.cashBalance * risk) \div (100 * executionPrice)

\* the buy branch without its funds check
InsufficientFundsUnchecked(session, cost) == FALSE

\* the funds check with three times the cash as buying power
InsufficientFundsOnMargin(session, cost) == cost > 3 * session.cashBalance

\* the funds check of the buy branch
InsufficientFunds(session, cost) == cost > session.cashBalance

\* the mean of the two prices, whatever the quantities
AverageDownUnweighted(existingPosition, executionPrice, tradeQuantity) ==
    RDiv(RAdd(existingPosition.averageCost, Num(executionPrice)), Num(2))

\* existingPosition.averageCost = totalCost / totalShares
AverageDown(existingPosition, executionPrice, tradeQuantity) ==
    LET totalShares == existingPosition.quantity + tradeQuantity
        totalCost == RAdd(RMul(existingPosition.averageCost,
                               Num(existingPosition.quantity)),
                          Num(executionPrice * tradeQuantity))
    IN  RDiv(totalCost, Num(totalShares))

\* a buy that opens a new position every time
BuyBranchAlwaysNew(session, symbol, executionPrice, tradeQuantity, now) ==
    LET cost == executionPrice * tradeQuantity
    IN  IF InsufficientFunds(session, cost)
        THEN PushError(session, "Insufficient funds")
        ELSE [session EXCEPT
                !.positions = Append(@, [symbol |-> symbol,
                                         quantity |-> tradeQuantity,
                                         averageCost |-> Num(executionPrice),
                                         currentPrice |-> executionPrice,
                                         lastUpdated |-> now]),
                !.cashBalance = @ - cost,
                !.transactions = Append(@, [type |-> "buy",
                                            symbol |-> symbol,
                                            quantity |-> tradeQuantity,
                                            price |-> executionPrice,
                                            total |-> cost])]

BuyBranch(session, symbol, executionPrice, tradeQuantity, now) ==
    LET cost == executionPrice * tradeQuantity
        i == FindPosition(session.positions, symbol, 1)
        existingPosition == session.positions[i]
        positions ==
            IF i # 0
            THEN [session.positions EXCEPT
                    ![i].averageCost = AverageDown(existingPosition,
                                            executionPrice, tradeQuantity),
                    ![i].quantity = existingPosition.quantity
                                    + tradeQuantity,
                    ![i].lastUpdated = now]
            ELSE Append(session.positions,
                        [symbol |-> symbol,
                         quantity |-> tradeQuantity,
                         averageCost |-> Num(executionPrice),
                         currentPrice |-> executionPrice,
                         lastUpdated |-> now])
    IN  IF InsufficientFunds(session, cost)
        THEN PushError(session, "Insufficient funds")
        ELSE [session EXCEPT
                !.positions = positions,
                !.cashBalance = @ - cost,
                !.transactions = Append(@, [type |-> "buy",
                                            symbol |-> symbol,
                                            quantity |-> tradeQuantity,
                                            price |-> executionPrice,
                                            total |-> cost])]

\* the sell branch without its shares check
NotEnoughSharesUnchecked(position, tradeQuantity) == FALSE

\* the shares check of the sell branch
NotEnoughShares(position, tradeQuantity) == position.quantity < tradeQuantity

\* the gain over the last marked price instead of the cost basis
ProfitLossAtMarket(position, executionPrice, tradeQuantity) ==
    Num((executionPrice - position.currentPrice) * tradeQuantity)

\* (executionPrice - position.averageCost) * tradeQuantity
ProfitLoss(position, executionPrice, tradeQuantity) ==
    RMul(RSub(Num(executionPrice), position.averageCost), Num(tradeQuantity))

SellBranch(session, symbol, executionPrice, tradeQuantity, now) ==
    LET positionIndex == FindPosition(session.positions, symbol, 1)
        position == session.positions[positionIndex]
        saleValue == executionPrice * tradeQuantity
        profitLoss == ProfitLoss(position, executionPrice, tradeQuantity)
        remaining == position.quantity - tradeQuantity
    IN  IF positionIndex = 0
        THEN PushError(session, "no position found")
        ELSE IF NotEnoughShares(position, tradeQuantity)
        THEN PushError(session, "not enough shares")
        ELSE [session EXCEPT
                !.positions =
                    IF remaining <= 0 THEN Splice(@, positionIndex)
                    ELSE [@ EXCEPT ![positionIndex].quantity = remaining,
                                   ![positionIndex].lastUpdated = now],
                !.cashBalance = @ + saleValue,
                !.transactions = Append(@, [type |-> "sell",
                                            symbol |-> symbol,
                                            quantity |-> tradeQuantity,
                                            price |-> executionPrice,
                                            total |-> saleValue,
                                            profitLoss |-> profitLoss])]

\* a simulator that sells on a stop loss or a take profit
ExecuteSignalStopsSell(session, signal, marketData, now) ==
    LET executionPrice == ExecutionPrice(signal, marketData)
        tradeQuantity == TradeQuantity(session, signal, executionPrice)
    IN  IF executionPrice <= 0
        THEN PushError(session, "invalid price")
        ELSE IF signal.action \in {"buy", "long"}
        THEN BuyBranch(session, signal.symbol, executionPrice, tradeQuantity,
                       now)
        ELSE IF signal.action \in {"sell", "short", "stop_loss",
                                   "take_profit"}
        THEN SellBranch(session, signal.symbol, executionPrice, tradeQuantity,
                        now)
        ELSE session

\* the body of the for loop of executeSignals, for one signal
ExecuteSignal(session, signal, marketData, now) ==
    LET executionPrice == ExecutionPrice(signal, marketData)
        tradeQuantity == TradeQuantity(session, signal, executionPrice)
    IN  IF executionPrice <= 0
        THEN PushError(session, "invalid price")
        ELSE IF signal.action \in {"buy", "long"}
        THEN BuyBranch(session, signal.symbol, executionPrice, tradeQuantity,
                       now)
        ELSE IF signal.action \in {"sell", "short"}
        THEN SellBranch(session, signal.symbol, executionPrice, tradeQuantity,
                        now)
        ELSE session

RECURSIVE SignalStepsAbortOnError(_, _, _, _, _)
\* a loop that leaves at the first signal it rejects
SignalStepsAbortOnError(session, signals, k, marketData, now) ==
    IF k > Len(signals) THEN <<session>>
    ELSE LET after == ExecuteSignal(session, signals[k], marketData, now)
         IN  IF Len(after.errors) > Len(session.errors)
             THEN <<session>> \o [j \in 1..(Len(signals) - k + 1) |-> after]
             ELSE <<session>> \o SignalStepsAbortOnError(
                        after, signals, k + 1, marketData, now)

\* the session before the first signal and after each signal of a cycle
RECURSIVE SignalSteps(_, _, _, _, _)
SignalSteps(session, signals, k, marketData, now) ==
    IF k > Len(signals) THEN <<session>>
    ELSE <<session>> \o SignalSteps(
            ExecuteSignal(session, signals[k], marketData, now),
            signals, k + 1, marketData, now)

Last(seq) == seq[Len(seq)]

executeSignals(session, signals, marketData, now) ==
    Last(SignalSteps(session, signals, 1, marketData, now))

updatePositions(session, marketData, now) ==
    [session EXCEPT !.positions =
        [i \in 1..Len(session.positions) |->
            LET position == session.positions[i]
                price == MdPrice(marketData, position.symbol)
            IN  IF price # 0
                THEN [position EXCEPT !.currentPrice = price,
                                      !.lastUpdated = now]
                ELSE position]]

RECURSIVE PositionsValue(_, _)
\* the loop portfolioValue += position.currentPrice * position.quantity
PositionsValue(positions, i) ==
    IF i > Len(positions) THEN 0
    ELSE positions[i].currentPrice * positions[i].quantity
         + PositionsValue(positions, i + 1)

\* a filter of completed trades that lets the buys through
IsSellOrBuy(t) == t.type \in {"sell", "buy"}
IsSell(t) == t.type = "sell"
IsWinningSell(t) == t.type = "sell" /\ RGtZero(t.profitLoss)
IsLosingSell(t) == t.type = "sell" /\ RLeZero(t.profitLoss)

\* transactions.filter(...).length for the three filters of updateMetrics
RECURSIVE CountTx(_, _, _)
CountTx(transactions, i, filter) ==
    IF i > Len(transactions) THEN 0
    ELSE LET t == transactions[i]
             keep == CASE filter = "sell" -> IsSell(t)
                       [] filter = "winning" -> IsWinningSell(t)
                       [] filter = "losing" -> IsLosingSell(t)
         IN  (IF keep THEN 1 ELSE 0) + CountTx(transactions, i + 1, filter)

\* metrics that add the profit of this cycle to the total of the last one
updateMetricsAccumulating(session) ==
    LET portfolioValue == session.cashBalance
                          + PositionsValue(session.positions, 1)
        totalPnL == session.metrics.totalPnL
                    + portfolioValue - session.initialCapital
        completedTrades == CountTx(session.transactions, 1, "sell")
    IN  [session EXCEPT
            !.currentCapital = portfolioValue,
            !.metrics = [totalPnL |-> totalPnL,
                         percentReturn |->
                            Frac(totalPnL * 100, session.initialCapital),
                         totalTrades |-> completedTrades,
                         winningTrades |->
                            CountTx(session.transactions, 1, "winning"),
                         losingTrades |->
                            CountTx(session.transactions, 1, "losing"),
                         winRate |->
                            IF completedTrades > 0
                            THEN Frac(CountTx(session.transactions, 1,
                                              "winning") * 100,
                                      completedTrades)
                            ELSE Num(0)]]

updateMetrics(session) ==
    LET portfolioValue == session.cashBalance
                          + PositionsValue(session.positions, 1)
        totalPnL == portfolioValue - session.initialCapital
        completedTrades == CountTx(session.transactions, 1, "sell")
        winningTrades == CountTx(session.transactions, 1, "winning")
        losingTrades == CountTx(session.transactions, 1, "losing")
    IN  [session EXCEPT
            !.currentCapital = portfolioValue,
            !.metrics = [totalPnL |-> totalPnL,
                         percentReturn |->
                            Frac(totalPnL * 100, session.initialCapital),
                         totalTrades |-> completedTrades,
                         winningTrades |-> winningTrades,
                         losingTrades |-> losingTrades,
                         winRate |->
                            IF completedTrades > 0
                            THEN Frac(winningTrades * 100, completedTrades)
                            ELSE Num(0)]]

\* ------------------------------------------------------ strategy repository
Block(id, type, subtype, settings) ==
    [id |-> id, type |-> type, subtype |-> subtype, settings |-> settings]

\* a threshold condition on a literal: true in every cycle
AlwaysTrue ==
    Block("c1", "condition", "threshold",
          [sourceType |-> "value", source |-> 1, operator |-> ">",
           value |-> 0])

\* the latest SPY close is above 110
SpyAbove110 ==
    Block("c2", "condition", "threshold",
          [sourceType |-> "price", source |-> <<"SPY", "close">>,
           operator |-> ">", value |-> 110])

SmaAbove110 ==
    Block("c3", "condition", "threshold",
          [sourceType |-> "indicator", source |-> "i1", operator |-> ">",
           value |-> 110])

Sma2 == Block("i1", "indicator", "sma", [symbol |-> "SPY", period |-> 2])

Buy(id, symbol, orderType, quantity, price, riskLevel) ==
    Block(id, "action", "buy",
          [symbol |-> symbol, orderType |-> orderType,
           quantity |-> quantity, price |-> price, riskLevel |-> riskLevel])

Sell(id, symbol, orderType, quantity, price) ==
    Block(id, "action", "sell",
          [symbol |-> symbol, orderType |-> orderType,
           quantity |-> quantity, price |-> price, percentage |-> 0])

StopLoss(id, symbol, value) ==
    Block(id, "action", "stop_loss", [symbol |-> symbol, value |-> value])

TakeProfit(id, symbol, value) ==
    Block(id, "action", "take_profit", [symbol |-> symbol, value |-> value])

\* a condition block of a subtype evaluateCondition does not know
UnknownCondition == Block("c4", "condition", "trailing", [symbol |-> "SPY"])

\* Strategy.findById: the strategies the repository holds
Strategies ==
    [ swing |->
        [user |-> "alice", symbols |-> <<"SPY">>,
         blocks |-> <<AlwaysTrue,
                      Sell("a1", "SPY", "limit", 5, -1),
                      Buy("a2", "SPY", "limit", 10, 100, 0),
                      Buy("a3", "SPY", "limit", 5, 120, 0),
                      Sell("a4", "SPY", "limit", 5, 130)>>],
      risk |->
        [user |-> "alice", symbols |-> <<"SPY">>,
         blocks |-> <<AlwaysTrue,
                      Buy("a1", "SPY", "market", 0, 0, 0),
                      Sell("a2", "SPY", "limit", 0, 120),
                      Buy("a3", "SPY", "market", 200, 0, 0),
                      StopLoss("a4", "SPY", 90)>>],
      trend |->
        [user |-> "alice", symbols |-> <<"SPY">>,
         blocks |-> <<Sma2, SmaAbove110,
                      Buy("a1", "SPY", "limit", 5, 120, 0)>>],
      broken |->
        [user |-> "alice", symbols |-> <<"SPY">>,
         blocks |-> <<AlwaysTrue,
                      Buy("a1", "SPY", "limit", 5, 120, 0),
                      UnknownCondition>>],
      sized |->
        [user |-> "alice", symbols |-> <<"SPY">>,
         blocks |-> <<AlwaysTrue,
                      Buy("a1", "SPY", "market", 0, 0, 50),
                      Buy("a2", "SPY", "limit", 0, 100, 0),
                      Sell("a3", "SPY", "limit", 0, 40)>>],
      small |->
        [user |-> "alice", symbols |-> <<"SPY">>,
         blocks |-> <<AlwaysTrue,
                      Buy("a1", "SPY", "market", 0, 0, 0)>>],
      dust |->
        [user |-> "alice", symbols |-> <<"SPY">>,
         blocks |-> <<AlwaysTrue,
                      Buy("a1", "SPY", "limit", 1, 100, 0),
                      Sell("a2", "SPY", "limit", 0, 400)>>],
      guarded |->
        [user |-> "alice", symbols |-> <<"SPY">>,
         blocks |-> <<AlwaysTrue,
                      Buy("a1", "SPY", "limit", 5, 120, 0),
                      StopLoss("a2", "SPY", 150),
                      TakeProfit("a3", "SPY", 90)>>],
      duo |->
        [user |-> "alice", symbols |-> <<"SPY", "QQQ">>,
         blocks |-> <<AlwaysTrue,
                      Buy("a1", "SPY", "market", 2, 0, 0),
                      Buy("a2", "QQQ", "market", 1, 0, 0),
                      Sell("a3", "SPY", "limit", 1, 120)>>] ]

StrategyIds == DOMAIN Strategies
\* an id Strategy.findById resolves to null
MissingStrategy == "missing"

\* ------------------------------------------------------------ session store
NoSessions == [id \in {} |-> 0]
SessionIds == DOMAIN paperTradingSessions

MapSet(map, key, value) ==
    [k \in DOMAIN map \cup {key} |-> IF k = key THEN value ELSE map[k]]
MapDelete(map, key) == [k \in DOMAIN map \ {key} |-> map[k]]

\* options.initialCapital = 0 stands for an absent option; the controller
\* passes no riskPerTrade and no autoRun
createSession(store, userId, strategyId, options, now) ==
    IF strategyId \notin StrategyIds
    THEN [err |-> "Strategy not found", store |-> store]
    ELSE IF Strategies[strategyId].user # userId
    THEN [err |-> "Not authorized to access this strategy", store |-> store]
    ELSE
    LET strategy == Strategies[strategyId]
        sessionId == <<userId, strategyId, now>>
        capital == IF options.initialCapital # 0 THEN options.initialCapital
                   ELSE DefaultInitialCapital
        session ==
            [id |-> sessionId,
             userId |-> userId,
             strategyId |-> strategyId,
             strategy |-> strategy,
             status |-> "active",
             startTime |-> now,
             endTime |-> NoTime,
             initialCapital |-> capital,
             currentCapital |-> capital,
             cashBalance |-> capital,
             positions |-> <<>>,
             transactions |-> <<>>,
             metrics |-> [totalPnL |-> 0, percentReturn |-> Num(0),
                          totalTrades |-> 0, winningTrades |-> 0,
                          losingTrades |-> 0, winRate |-> Num(0)],
             settings |-> [symbols |-> strategy.symbols,
                           timePeriod |-> options.timePeriod,
                           riskPerTrade |-> DefaultRiskPerTrade],
             errors |-> <<>>]
    IN  [err |-> "", store |-> MapSet(store, sessionId, session),
         session |-> session]

\* getSession without the comparison of session.userId with the caller
getSessionAnyUser(store, sessionId, userId) ==
    IF sessionId \notin DOMAIN store
    THEN [err |-> "Paper trading session not found"]
    ELSE [err |-> "", session |-> store[sessionId]]

getSession(store, sessionId, userId) ==
    IF sessionId \notin DOMAIN store
    THEN [err |-> "Paper trading session not found"]
    ELSE IF store[sessionId].userId # userId
    THEN [err |-> "Not authorized to access this session"]
    ELSE [err |-> "", session |-> store[sessionId]]

\* the update cycle with updateMetrics called before updatePositions
UpdateCycleMetricsFirst(session, marketData, now) ==
    updatePositions(
        updateMetrics(
            executeSignals(session,
                           processStrategy(session.strategy,
                                           marketData).signals,
                           marketData, now)),
        marketData, now)

\* the try block of updateSession for the session it found; none of the
\* four calls throws for a marketData object, so the catch block is dead.
\* The test signals.length > 0 only skips a loop that would not iterate.
UpdateCycle(session, marketData, now) ==
    updateMetrics(
        updatePositions(
            executeSignals(session,
                           processStrategy(session.strategy,
                                           marketData).signals,
                           marketData, now),
            marketData, now))

\* an update that runs the cycle on every session of the same user and
\* strategy
updateSessionOfStrategy(store, sessionId, marketData, now) ==
    IF sessionId \notin DOMAIN store
    THEN [err |-> "Paper trading session not found", store |-> store]
    ELSE [err |-> "",
          store |-> [k \in DOMAIN store |->
                        IF /\ store[k].userId = store[sessionId].userId
                           /\ store[k].strategyId
                                = store[sessionId].strategyId
                        THEN UpdateCycle(store[k], marketData, now)
                        ELSE store[k]]]

\* an update that starts the session again when it is not in the store
updateSessionRestoring(store, sessionId, marketData, now) ==
    LET r == createSession(store, sessionId[1], sessionId[2],
                           [initialCapital |-> DefaultInitialCapital,
                            timePeriod |-> "1d"], sessionId[3])
    IN  IF sessionId \in DOMAIN store
        THEN [err |-> "",
              store |-> [store EXCEPT
                            ![sessionId] = UpdateCycle(@, marketData, now)]]
        ELSE IF r.err # ""
        THEN [err |-> "Paper trading session not found", store |-> store]
        ELSE [err |-> "",
              store |-> [r.store EXCEPT
                            ![sessionId] = UpdateCycle(@, marketData, now)]]

updateSession(store, sessionId, marketData, now) ==
    IF sessionId \notin DOMAIN store
    THEN [err |-> "Paper trading session not found", store |-> store]
    ELSE [err |-> "",
          store |-> [store EXCEPT
                        ![sessionId] = UpdateCycle(@, marketData, now)]]

\* a stop that resumes a session that is already stopped
stopSessionToggling(store, sessionId, userId, now) ==
    IF sessionId \notin DOMAIN store
    THEN [err |-> "Paper trading session not found", store |-> store]
    ELSE IF store[sessionId].userId # userId
    THEN [err |-> "Not authorized to stop this session", store |-> store]
    ELSE IF store[sessionId].status = "stopped"
    THEN [err |-> "",
          store |-> [store EXCEPT ![sessionId].status = "active",
                                  ![sessionId].endTime = NoTime]]
    ELSE [err |-> "",
          store |-> [store EXCEPT ![sessionId].status = "stopped",
                                  ![sessionId].endTime = now]]

stopSession(store, sessionId, userId, now) ==
    IF sessionId \notin DOMAIN store
    THEN [err |-> "Paper trading session not found", store |-> store]
    ELSE IF store[sessionId].userId # userId
    THEN [err |-> "Not authorized to stop this session", store |-> store]
    ELSE [err |-> "",
          store |-> [store EXCEPT ![sessionId].status = "stopped",
                                  ![sessionId].endTime = now]]

\* the sessions of a user; the array the code returns is in the order of
\* insertion into the map, which the store of the model does not keep
getUserSessions(store, userId) ==
    {store[id] : id \in {k \in DOMAIN store : store[k].userId = userId}}

\* a delete that reports success on an active session but leaves it in the
\* store
deleteSessionStoppedOnly(store, sessionId, userId) ==
    IF sessionId \notin DOMAIN store
    THEN [err |-> "", found |-> FALSE, store |-> store]
    ELSE IF store[sessionId].userId # userId
    THEN [err |-> "Not authorized to delete this session",
          found |-> FALSE, store |-> store]
    ELSE IF store[sessionId].status = "active"
    THEN [err |-> "", found |-> TRUE, store |-> store]
    ELSE [err |-> "", found |-> TRUE, store |-> MapDelete(store, sessionId)]

\* found is the return value; an authorization failure throws
deleteSession(store, sessionId, userId) ==
    IF sessionId \notin DOMAIN store
    THEN [err |-> "", found |-> FALSE, store |-> store]
    ELSE IF store[sessionId].userId # userId
    THEN [err |-> "Not authorized to delete this session",
          found |-> FALSE, store |-> store]
    ELSE [err |-> "", found |-> TRUE, store |-> MapDelete(store, sessionId)]

\* -------------------------------------------------------------- controllers
\* request inputs
CapitalInputs == {0}
UnknownId == <<"alice", MissingStrategy, 0>>
IdInputs == SessionIds \cup {UnknownId}
\* a rejected getMarketData promise
Rejected == [rejected |-> TRUE]
FetchOutcomes == Quotes \cup {Rejected}

RECURSIVE TotalLogged(_, _, _)
\* the number of entries of one log (field) over the sessions ids of store
TotalLogged(store, ids, field) ==
    IF ids = {} THEN 0
    ELSE LET id == CHOOSE x \in ids : TRUE
         IN  Len(store[id][field]) + TotalLogged(store, ids \ {id}, field)

\* the model stops a behaviour that would log more than the bounds allow
WithinBounds(store) ==
    /\ TotalLogged(store, DOMAIN store, "transactions") <= MaxTransactions
    /\ TotalLogged(store, DOMAIN store, "errors") <= MaxErrors

\* no helper is applied on its own while the server handles requests
NoCall == [fn |-> "none"]
Pending == [done |-> FALSE]

Init ==
    /\ paperTradingSessions = NoSessions
    /\ clock = 0
    /\ requests = {}
    /\ response = ""
    /\ call = NoCall
    /\ result = Pending

\* Date.now() advances
Tick ==
    /\ clock < MaxClock
    /\ clock' = clock + 1
    /\ UNCHANGED <<paperTradingSessions, requests, response, call, result>>

\* POST /api/paper-trading
CtlStartSession(caller, strategyId, initialCapital) ==
    LET options == [initialCapital |->
                        IF initialCapital # 0 THEN initialCapital
                        ELSE DefaultInitialCapital,
                    timePeriod |-> "1d"]
        r == createSession(paperTradingSessions, caller, strategyId,
                           options, clock)
    IN  /\ paperTradingSessions' = r.store
        /\ response' = r.err
        /\ UNCHANGED <<clock, requests, call, result>>

\* paperTradingService.updateSession and the response of the controller
ApplyUpdate(caller, sessionId, marketData) ==
    /\ paperTradingSessions' =
            updateSession(paperTradingSessions, sessionId, marketData,
                          clock).store
    /\ WithinBounds(paperTradingSessions')
    /\ response' = IF sessionId \in SessionIds THEN ""
                   ELSE "Paper trading session not found"

\* no update of the session is waiting for market data: but for
\* SpecConcurrent, a client sends the next update of a session when the
\* last one was answered
Idle(sessionId) == \A request \in requests : request.id # sessionId

\* PUT /api/paper-trading/:id/update, up to the first await
\* the requests in flight for one session are told apart by a number: the
\* smallest one free
FreeNumber(sessionId) ==
    LET taken == {request.n : request \in
                    {r \in requests : r.id = sessionId}}
    IN  CHOOSE k \in 1..(Cardinality(taken) + 1) :
            /\ k \notin taken
            /\ \A j \in 1..(k - 1) : j \in taken

CtlUpdateBegin(caller, sessionId) ==
    LET g == getSession(paperTradingSessions, sessionId, caller)
    IN  IF g.err # ""
        THEN /\ response' = g.err
             /\ UNCHANGED <<paperTradingSessions, clock, requests, call,
                            result>>
        ELSE IF Len(g.session.settings.symbols) = 0
        THEN /\ ApplyUpdate(caller, sessionId, <<>>)
             /\ UNCHANGED <<clock, requests, call, result>>
        ELSE /\ requests' = requests \cup
                    {[n |-> FreeNumber(sessionId),
                      caller |-> caller, id |-> sessionId,
                      symbols |-> g.session.settings.symbols,
                      i |-> 1, marketData |-> <<>>]}
             /\ UNCHANGED <<paperTradingSessions, clock, response, call,
                            result>>

\* one await of the symbol loop settles; after the last one the handler
\* runs on into paperTradingService.updateSession
ResumeData(request, outcome) ==
    IF outcome = Rejected THEN request.marketData
    ELSE MdPut(request.marketData, request.symbols[request.i], outcome)

\* a resumption that runs the cycle after every await, on the data
\* fetched so far
CtlUpdateResumeEager(request, outcome) ==
    IF request.i < Len(request.symbols)
    THEN /\ requests' = (requests \ {request}) \cup
                {[request EXCEPT !.i = @ + 1,
                                 !.marketData = ResumeData(request, outcome)]}
         /\ ApplyUpdate(request.caller, request.id,
                        ResumeData(request, outcome))
         /\ UNCHANGED <<clock, call, result>>
    ELSE /\ requests' = requests \ {request}
         /\ ApplyUpdate(request.caller, request.id,
                        ResumeData(request, outcome))
         /\ UNCHANGED <<clock, call, result>>

CtlUpdateResume(request, outcome) ==
    IF request.i < Len(request.symbols)
    THEN /\ requests' = (requests \ {request}) \cup
                {[request EXCEPT !.i = @ + 1,
                                 !.marketData = ResumeData(request, outcome)]}
         /\ UNCHANGED <<paperTradingSessions, clock, response, call, result>>
    ELSE /\ requests' = requests \ {request}
         /\ ApplyUpdate(request.caller, request.id,
                        ResumeData(request, outcome))
         /\ UNCHANGED <<clock, call, result>>

\* PUT /api/paper-trading/:id/stop
CtlStopSession(caller, sessionId) ==
    LET r == stopSession(paperTradingSessions, sessionId, caller, clock)
    IN  /\ paperTradingSessions' = r.store
        /\ response' = r.err
        /\ UNCHANGED <<clock, requests, call, result>>

\* DELETE /api/paper-trading/:id
CtlDeleteSession(caller, sessionId) ==
    LET r == deleteSession(paperTradingSessions, sessionId, caller)
    IN  /\ paperTradingSessions' = r.store
        /\ response' = IF r.err # "" THEN r.err
                        ELSE IF r.found THEN ""
                        ELSE "Paper trading session not found"
        /\ UNCHANGED <<clock, requests, call, result>>

\* the owner of the strategies drives sessions of her own
Owners == {"alice"}
TradingStrategyIds == {"swing", "risk"}

Next ==
    \/ Tick
    \/ /\ Cardinality(SessionIds) < MaxSessions
       /\ \E caller \in Owners, strategyId \in TradingStrategyIds,
             initialCapital \in CapitalInputs :
                CtlStartSession(caller, strategyId, initialCapital)
    \/ /\ Cardinality(requests) < MaxRequests
       /\ \E caller \in Owners, sessionId \in SessionIds :
            Idle(sessionId) /\ CtlUpdateBegin(caller, sessionId)
    \/ \E request \in requests, outcome \in FetchOutcomes :
            CtlUpdateResume(request, outcome)
    \/ \E caller \in Owners, sessionId \in SessionIds :
            CtlStopSession(caller, sessionId)
    \/ \E caller \in Owners, sessionId \in SessionIds :
            CtlDeleteSession(caller, sessionId)

Spec == Init /\ [][Next]_vars

\* any user sends any request, also for ids the store does not hold; the
\* sessions run the one strategy of AccessStrategyIds
AccessStrategyIds == {"swing"}

NextAccess ==
    \/ Tick
    \/ /\ Cardinality(SessionIds) < MaxSessions
       /\ \E caller \in Users, strategyId \in AccessStrategyIds,
             initialCapital \in CapitalInputs :
                CtlStartSession(caller, strategyId, initialCapital)
    \/ /\ Cardinality(requests) < MaxRequests
       /\ \E caller \in Users, sessionId \in IdInputs :
            Idle(sessionId) /\ CtlUpdateBegin(caller, sessionId)
    \/ \E request \in requests, outcome \in FetchOutcomes :
            CtlUpdateResume(request, outcome)
    \/ \E caller \in Users, sessionId \in IdInputs :
            CtlStopSession(caller, sessionId)
    \/ \E caller \in Users, sessionId \in IdInputs :
            CtlDeleteSession(caller, sessionId)

SpecAccess == Init /\ [][NextAccess]_vars

\* the owner drives sessions of the strategies that read an indicator or
\* hold a condition that throws
TrendStrategyIds == {"trend", "broken"}
TrendOutcomes == TrendQuotes \cup FetchOutcomes

NextTrend ==
    \/ Tick
    \/ /\ Cardinality(SessionIds) < MaxSessions
       /\ \E caller \in Owners, strategyId \in TrendStrategyIds,
             initialCapital \in CapitalInputs :
                CtlStartSession(caller, strategyId, initialCapital)
    \/ /\ Cardinality(requests) < MaxRequests
       /\ \E caller \in Owners, sessionId \in SessionIds :
            Idle(sessionId) /\ CtlUpdateBegin(caller, sessionId)
    \/ \E request \in requests, outcome \in TrendOutcomes :
            CtlUpdateResume(request, outcome)
    \/ \E caller \in Owners, sessionId \in SessionIds :
            CtlStopSession(caller, sessionId)
    \/ \E caller \in Owners, sessionId \in SessionIds :
            CtlDeleteSession(caller, sessionId)

SpecTrend == Init /\ [][NextTrend]_vars

\* two sessions side by side, of the same user and the same strategy; their
\* ids differ by the time of creation
PairStrategyIds == {"trend"}
PairCapitalInputs == {0}
PairOutcomes == TrendQuotes \cup {Rejected}
NextPair ==
    \/ Tick
    \/ /\ Cardinality(SessionIds) < MaxPairSessions
       /\ \E caller \in Owners, strategyId \in PairStrategyIds,
              initialCapital \in PairCapitalInputs :
            CtlStartSession(caller, strategyId, initialCapital)
    \/ /\ Cardinality(requests) < MaxRequests
       /\ \E caller \in Owners, sessionId \in IdInputs :
            Idle(sessionId) /\ CtlUpdateBegin(caller, sessionId)
    \/ \E request \in requests, outcome \in PairOutcomes :
            CtlUpdateResume(request, outcome)
    \/ \E caller \in Owners, sessionId \in IdInputs :
            CtlStopSession(caller, sessionId)
    \/ \E caller \in Owners, sessionId \in IdInputs :
            CtlDeleteSession(caller, sessionId)

SpecPair == Init /\ [][NextPair]_vars

\* one session of two symbols, started when the store is empty, and up to
\* MaxConcurrent update requests in flight on it
ConcurrentStrategyIds == {"duo"}
ConcurrentOutcomes ==
    {Rejected, [price |-> 100, history |-> <<Candle(90, 100, 90, 100)>>]}
NextConcurrent ==
    \/ Tick
    \/ /\ SessionIds = {}
       /\ \E caller \in Owners, strategyId \in ConcurrentStrategyIds,
              initialCapital \in PairCapitalInputs :
            CtlStartSession(caller, strategyId, initialCapital)
    \/ /\ Cardinality(requests) < MaxConcurrent
       /\ \E caller \in Owners, sessionId \in SessionIds :
            CtlUpdateBegin(caller, sessionId)
    \/ \E request \in requests, outcome \in ConcurrentOutcomes :
            CtlUpdateResume(request, outcome)
    \/ \E caller \in Owners, sessionId \in SessionIds :
            CtlStopSession(caller, sessionId)
    \/ \E caller \in Owners, sessionId \in SessionIds :
            CtlDeleteSession(caller, sessionId)

SpecConcurrent == Init /\ [][NextConcurrent]_vars

\* sessions whose orders carry no quantity (sized; small and dust, whose
\* risk budget of 200 buys no share at 300 and sells none at 400), and a
\* session that buys and sets a stop loss above and a take profit below
\* every quote
SizingStrategyIds == {"sized", "small", "dust", "guarded"}
NextSizing ==
    \/ Tick
    \/ /\ SessionIds = {}
       /\ \E caller \in Owners, strategyId \in SizingStrategyIds,
              initialCapital \in CapitalInputs :
            CtlStartSession(caller, strategyId, initialCapital)
    \/ /\ Cardinality(requests) < MaxRequests
       /\ \E caller \in Owners, sessionId \in SessionIds :
            Idle(sessionId) /\ CtlUpdateBegin(caller, sessionId)
    \/ \E request \in requests, outcome \in FetchOutcomes :
            CtlUpdateResume(request, outcome)
    \/ \E caller \in Owners, sessionId \in SessionIds :
            CtlStopSession(caller, sessionId)
    \/ \E caller \in Owners, sessionId \in SessionIds :
            CtlDeleteSession(caller, sessionId)

SpecSizing == Init /\ [][NextSizing]_vars

\* ---------------------------------------------- helpers applied on their own
\* the marketData objects a cycle can hand to the interpreter: no entry, or
\* one entry for SPY
InterpreterData ==
    {<<>>} \cup {<<[symbol |-> "SPY", quote |-> q]>> : q \in TrendQuotes \cup Quotes}

\* strategies of up to MaxBlocks blocks, in every order, over two conditions
\* and three actions
InterpreterBlocks ==
    { AlwaysTrue, SpyAbove110,
      Buy("a1", "SPY", "limit", 5, 120, 0),
      Buy("a2", "SPY", "market", 10, 0, 0),
      StopLoss("a3", "SPY", 90) }
BlockSeqs == UNION {[1..n -> InterpreterBlocks] : n \in 0..MaxBlocks}

InitInterpreter ==
    /\ paperTradingSessions = NoSessions
    /\ clock = 0
    /\ requests = {}
    /\ response = ""
    /\ call \in {[fn |-> "processStrategy",
                   strategy |-> [blocks |-> blocks],
                   marketData |-> marketData] :
                        blocks \in BlockSeqs, marketData \in InterpreterData}
    /\ result = Pending

\* one run of the interpreter
RunProcessStrategy ==
    /\ call.fn = "processStrategy"
    /\ ~result.done
    /\ result' = [done |-> TRUE,
                  value |-> processStrategy(call.strategy, call.marketData)]
    /\ UNCHANGED <<paperTradingSessions, clock, requests, response, call>>

NextInterpreter == RunProcessStrategy

SpecInterpreter == InitInterpreter /\ [][NextInterpreter]_vars

\* the periods a block can ask for: 0 for a setting left out
PeriodInputs == 0..MaxPeriod

\* histories of up to MaxCandles candles closing at 9 or 11
IndicatorCandles == {Candle(c, c, c, c) : c \in {9, 11}}
IndicatorHistories == UNION {[1..n -> IndicatorCandles] : n \in 0..MaxCandles}

\* the settings of an sma, ema, rsi or bb block, and of a macd block
PeriodSettings ==
    {[symbol |-> "SPY", period |-> period, fastPeriod |-> 0,
      slowPeriod |-> 0, signalPeriod |-> 0] : period \in PeriodInputs}
MacdSettings ==
    {[symbol |-> "SPY", period |-> 0, fastPeriod |-> fastPeriod,
      slowPeriod |-> slowPeriod, signalPeriod |-> signalPeriod] :
        fastPeriod \in PeriodInputs, slowPeriod \in PeriodInputs,
        signalPeriod \in PeriodInputs}
IndicatorBlocks ==
    {Block("i1", "indicator", subtype, settings) :
        subtype \in {"sma", "ema", "rsi", "bb"}, settings \in PeriodSettings}
    \cup {Block("i1", "indicator", "macd", settings) :
            settings \in MacdSettings}

InitIndicator ==
    /\ paperTradingSessions = NoSessions
    /\ clock = 0
    /\ requests = {}
    /\ response = ""
    /\ call \in {[fn |-> "applyIndicator",
                   block |-> block,
                   marketData |-> <<[symbol |-> "SPY",
                                     quote |-> [price |-> 10,
                                                history |-> history]]>>] :
                        block \in IndicatorBlocks,
                        history \in IndicatorHistories}
    /\ result = Pending

\* one computation of an indicator
RunApplyIndicator ==
    /\ call.fn = "applyIndicator"
    /\ ~result.done
    /\ result' = [done |-> TRUE,
                  value |-> applyIndicator(call.block, call.marketData)]
    /\ UNCHANGED <<paperTradingSessions, clock, requests, response, call>>

NextIndicator == RunApplyIndicator

SpecIndicator == InitIndicator /\ [][NextIndicator]_vars

\* the directions of a crossover block
Directions == {"above", "below", "any"}

\* the sources a crossover can compare: two fields of the candles of SPY,
\* an indicator and a literal
SourceInputs ==
    << [type |-> "price", source |-> <<"SPY", "close">>],
       [type |-> "price", source |-> <<"SPY", "open">>],
       [type |-> "indicator", source |-> "fast"],
       [type |-> "value", source |-> 10] >>

\* candles that open and close at 9 or 10, and histories of up to
\* MaxHistory of them
CrossCandles == {Candle(o, 10, 9, c) : o \in {9, 10}, c \in {9, 10}}
CrossHistories == UNION {[1..n -> CrossCandles] : n \in 0..MaxHistory}
CrossData ==
    {<<>>} \cup {<<[symbol |-> "SPY",
                    quote |-> [price |-> 10, history |-> history]]>> :
                        history \in CrossHistories}

\* no indicator, or the indicator fast with a history of 1 to MaxHistory
\* values of 9 or 10, the last of which is its value
CrossIndicators ==
    {NoIndicators} \cup
    {[id \in {"fast"} |-> [value |-> history[Len(history)],
                           history |-> history]] :
        history \in UNION {[1..n -> {Num(9), Num(10)}] : n \in 1..MaxHistory}}

InitCrossover ==
    /\ paperTradingSessions = NoSessions
    /\ clock = 0
    /\ requests = {}
    /\ response = ""
    /\ \E direction \in Directions,
          i \in 1..Len(SourceInputs), j \in 1..Len(SourceInputs),
          marketData \in CrossData, indicators \in CrossIndicators :
            call = [fn |-> "evaluateCrossover",
                    settings |-> [direction |-> direction,
                                  source1Type |-> SourceInputs[i].type,
                                  source1 |-> SourceInputs[i].source,
                                  source2Type |-> SourceInputs[j].type,
                                  source2 |-> SourceInputs[j].source],
                    marketData |-> marketData,
                    indicators |-> indicators]
    /\ result = Pending

\* one evaluation of a crossover condition
RunEvaluateCrossover ==
    /\ call.fn = "evaluateCrossover"
    /\ ~result.done
    /\ result' = [done |-> TRUE,
                  value |-> evaluateCrossover(call.settings, call.marketData,
                                              call.indicators)]
    /\ UNCHANGED <<paperTradingSessions, clock, requests, response, call>>

NextCrossover == RunEvaluateCrossover

SpecCrossover == InitCrossover /\ [][NextCrossover]_vars

\* =================================================================== claims
IsLastAwait(request) == request.i = Len(request.symbols)

\* P(before, marketData, after) holds of every update cycle the service
\* runs: before and after are the session around the cycle
EveryCycle(P(_, _, _)) ==
    \A request \in requests, outcome \in FetchOutcomes :
        ( /\ IsLastAwait(request)
          /\ request.id \in SessionIds
          /\ CtlUpdateResume(request, outcome) )
        => P(paperTradingSessions[request.id],
             ResumeData(request, outcome),
             paperTradingSessions'[request.id])

\* Q(before, signal, marketData, after) holds of every signal of every
\* update cycle: before and after are the session around that one signal
EverySignal(Q(_, _, _, _)) ==
    LET P(before, marketData, after) ==
            LET signals == processStrategy(before.strategy,
                                           marketData).signals
                steps == SignalSteps(before, signals, 1, marketData, clock)
            IN  \A k \in 1..Len(signals) :
                    Q(steps[k], signals[k], marketData, steps[k + 1])
    IN  EveryCycle(P)

Sessions == {paperTradingSessions[id] : id \in SessionIds}
Range(seq) == {seq[i] : i \in 1..Len(seq)}

SamePortfolio(before, after) ==
    /\ after.cashBalance = before.cashBalance
    /\ after.positions = before.positions
    /\ after.transactions = before.transactions

C1_Step ==
    LET P(before, marketData, after) ==
            before.status = "stopped" => SamePortfolio(before, after)
    IN  EveryCycle(P)

\* C1: once a session is stopped, an update cycle on it leaves its
\* cashBalance, positions and transactions as they were.
C1_StoppedSessionIsNotTraded == [][C1_Step]_vars

\* C2: every position held by a session has a quantity above zero.
C2_PositionsArePositive ==
    \A session \in Sessions :
        \A position \in Range(session.positions) : position.quantity > 0

RECURSIVE MarketValue(_)
MarketValue(positions) ==
    IF positions = <<>> THEN 0
    ELSE Head(positions).quantity * Head(positions).currentPrice
         + MarketValue(Tail(positions))

\* C3: in every session of the store, currentCapital is cashBalance plus
\* the sum of quantity * currentPrice over the open positions.
C3_CapitalIsCashPlusPositions ==
    \A session \in Sessions :
        session.currentCapital =
            session.cashBalance + MarketValue(session.positions)

\* a session marked to market at a price away from its cost
C3_Witness ==
    \E session \in Sessions :
        /\ session.currentCapital # session.initialCapital
        /\ \E position \in Range(session.positions) :
                /\ position.quantity > 0
                /\ Num(position.currentPrice) # position.averageCost

IsBuy(signal) == signal.action \in {"buy", "long"}
IsSellSignal(signal) == signal.action \in {"sell", "short"}
Bought(before, after) ==
    /\ Len(after.transactions) = Len(before.transactions) + 1
    /\ after.transactions[Len(after.transactions)].type = "buy"

C4_Step ==
    LET Q(before, signal, marketData, after) ==
            (IsBuy(signal) /\ Bought(before, after))
                => after.cashBalance >= 0
    IN  EverySignal(Q)

\* C4: after every buy that went through, cashBalance is at least zero.
C4_CashNotNegativeAfterBuy == [][C4_Step]_vars

\* a session that bought and spent part of its cash
C4_Witness ==
    \E session \in Sessions :
        /\ \E t \in Range(session.transactions) :
                t.type = "buy" /\ t.total > 0
        /\ session.cashBalance >= 0
        /\ session.cashBalance < session.initialCapital

AuthorizationErrors ==
    { "Not authorized to access this session",
      "Not authorized to stop this session",
      "Not authorized to delete this session" }

\* C5: an update, stop or delete request from a caller who is not the
\* owner of the session is answered with an authorization error and changes
\* neither the session nor the store, and schedules no update cycle.
C5_ForeignCallerIsRejected ==
    [][ \A caller \in Users, id \in SessionIds :
            ( /\ paperTradingSessions[id].userId # caller
              /\ \/ CtlUpdateBegin(caller, id)
                 \/ CtlStopSession(caller, id)
                 \/ CtlDeleteSession(caller, id) )
            => /\ response' \in AuthorizationErrors
               /\ paperTradingSessions' = paperTradingSessions
               /\ requests' = requests ]_vars

\* the owner's session is in the store and a request on it was refused
C5_Witness ==
    /\ response = "Not authorized to access this session"
    /\ \E session \in Sessions : session.userId = "alice"

\* the price and the quantity the simulator resolves for a signal
PriceOf(signal, marketData) == ExecutionPrice(signal, marketData)
QuantityOf(session, signal, marketData) ==
    TradeQuantity(session, signal, PriceOf(signal, marketData))
HeldAt(session, signal) == FindPosition(session.positions, signal.symbol, 1)

OneMoreError(before, after) ==
    /\ Len(after.errors) = Len(before.errors) + 1
    /\ SubSeq(after.errors, 1, Len(before.errors)) = before.errors

\* positions other than the i-th are the same in both sessions
OthersUntouched(before, after, i) ==
    /\ Len(after.positions) = Len(before.positions)
    /\ \A j \in 1..Len(before.positions) :
            j # i => after.positions[j] = before.positions[j]

C6_Step ==
    LET Q(before, signal, marketData, after) ==
            LET p == PriceOf(signal, marketData)
                q == QuantityOf(before, signal, marketData)
                i == HeldAt(before, signal)
                last == Len(after.positions)
            IN  (IsBuy(signal) /\ p > 0 /\ p * q <= before.cashBalance)
                => /\ after.cashBalance = before.cashBalance - p * q
                   /\ after.transactions =
                        Append(before.transactions,
                               [type |-> "buy", symbol |-> signal.symbol,
                                quantity |-> q, price |-> p,
                                total |-> p * q])
                   /\ IF i = 0
                      THEN /\ last = Len(before.positions) + 1
                           /\ SubSeq(after.positions, 1, last - 1)
                                = before.positions
                           /\ after.positions[last].symbol = signal.symbol
                           /\ after.positions[last].quantity = q
                           /\ after.positions[last].averageCost = Num(p)
                      ELSE /\ OthersUntouched(before, after, i)
                           /\ after.positions[i].symbol = signal.symbol
                           /\ after.positions[i].quantity
                                = before.positions[i].quantity + q
                           /\ IF before.positions[i].quantity + q = 0
                              THEN IsNaN(after.positions[i].averageCost)
                              ELSE RMul(after.positions[i].averageCost,
                                        Num(before.positions[i].quantity + q))
                                   = RAdd(RMul(before.positions[i].averageCost,
                                               Num(before.positions[i].quantity)),
                                          Num(p * q))
    IN  EverySignal(Q)

\* C6: a buy signal of quantity q at price p with p*q <= cashBalance takes
\* exactly p*q from cashBalance, appends exactly one buy transaction
\* {quantity q, price p, total p*q}, and either appends a position
\* {quantity q, averageCost p} when the symbol has none, or turns the
\* position (Q, A) of the symbol into quantity Q+q at the weighted average
\* cost (A*Q + p*q)/(Q+q), leaving the other positions alone.
C6_BuyEffect == [][C6_Step]_vars

\* 10 shares bought at 100 were averaged with 5 more bought at 120
C6_Witness ==
    \E session \in Sessions :
        /\ Len(session.transactions) >= 2
        /\ session.transactions[1].type = "buy"
        /\ session.transactions[1].total = 1000
        /\ session.transactions[2].type = "buy"
        /\ session.transactions[2].quantity = 5
        /\ session.transactions[2].price = 120
        /\ \E position \in Range(session.positions) :
                position.averageCost = Frac(320, 3)

C7_Step ==
    LET Q(before, signal, marketData, after) ==
            LET p == PriceOf(signal, marketData)
                q == QuantityOf(before, signal, marketData)
            IN  (IsBuy(signal) /\ p > 0 /\ p * q > before.cashBalance)
                => /\ SamePortfolio(before, after)
                   /\ OneMoreError(before, after)
    IN  EverySignal(Q)

\* C7: a buy signal whose cost price * quantity exceeds cashBalance is
\* skipped: positions, cashBalance and transactions stay as they were and
\* exactly one entry is appended to errors.
C7_UnfundedBuyIsSkipped == [][C7_Step]_vars

\* a session that was refused a buy it could not pay for
C7_Witness ==
    \E session \in Sessions :
        /\ \E e \in Range(session.errors) : e.message = "Insufficient funds"
        /\ session.cashBalance >= 0

C8_Step ==
    LET Q(before, signal, marketData, after) ==
            LET p == PriceOf(signal, marketData)
                q == QuantityOf(before, signal, marketData)
                i == HeldAt(before, signal)
                held == before.positions[i]
                sale == after.transactions[Len(after.transactions)]
            IN  (IsSellSignal(signal) /\ p > 0 /\ i # 0 /\ held.quantity >= q)
                => /\ after.cashBalance = before.cashBalance + p * q
                   /\ Len(after.transactions) = Len(before.transactions) + 1
                   /\ SubSeq(after.transactions, 1, Len(before.transactions))
                        = before.transactions
                   /\ sale.type = "sell" /\ sale.symbol = signal.symbol
                   /\ sale.quantity = q /\ sale.price = p
                   /\ sale.total = p * q
                   /\ RAdd(sale.profitLoss, RMul(held.averageCost, Num(q)))
                        = Num(p * q)
                   /\ IF held.quantity - q = 0
                      THEN after.positions = Splice(before.positions, i)
                      ELSE /\ OthersUntouched(before, after, i)
                           /\ after.positions[i].symbol = held.symbol
                           /\ after.positions[i].quantity = held.quantity - q
                           /\ after.positions[i].averageCost
                                = held.averageCost
    IN  EverySignal(Q)

\* C8: a sell signal of quantity q at price p against a position (Q, A)
\* with Q >= q adds exactly p*q to cashBalance, appends exactly one sell
\* transaction whose profitLoss is (p - A)*q, and leaves the position at
\* quantity Q-q with averageCost A, or removes it when Q-q = 0 and only then.
C8_SellEffect == [][C8_Step]_vars

\* 5 of 15 shares held at 320/3 were sold at 130, 10 are left
C8_Witness ==
    \E session \in Sessions :
        /\ \E t \in Range(session.transactions) :
                /\ t.type = "sell" /\ t.quantity = 5 /\ t.price = 130
                /\ t.profitLoss = Frac(350, 3)
        /\ \E position \in Range(session.positions) :
                position.quantity = 10 /\ position.averageCost = Frac(320, 3)

C9_Step ==
    LET Q(before, signal, marketData, after) ==
            LET p == PriceOf(signal, marketData)
                q == QuantityOf(before, signal, marketData)
                i == HeldAt(before, signal)
            IN  ( /\ IsSellSignal(signal) /\ p > 0
                  /\ (i = 0 \/ before.positions[i].quantity < q) )
                => /\ SamePortfolio(before, after)
                   /\ OneMoreError(before, after)
    IN  EverySignal(Q)

\* C9: a sell signal for a symbol without an open position, or for more
\* shares than the position holds, is skipped: cashBalance, positions and
\* transactions stay as they were and exactly one entry is appended to
\* errors.
C9_UncoveredSellIsSkipped == [][C9_Step]_vars

\* a session that was refused a sale of shares it did not hold
C9_Witness ==
    \E session \in Sessions :
        /\ \E e \in Range(session.errors) : e.message = "no position found"
        /\ session.cashBalance = session.initialCapital

\* what the transactions of a log moved into (+) and out of (-) the cash
RECURSIVE NetCash(_)
NetCash(transactions) ==
    IF transactions = <<>> THEN 0
    ELSE (IF Head(transactions).type = "sell" THEN Head(transactions).total
          ELSE 0 - Head(transactions).total)
         + NetCash(Tail(transactions))

\* the signals the simulator answers with a transaction or an error
Answered(signals, marketData) ==
    {k \in 1..Len(signals) :
        \/ PriceOf(signals[k], marketData) <= 0
        \/ IsBuy(signals[k])
        \/ IsSellSignal(signals[k])}

C10_Step ==
    LET P(before, marketData, after) ==
            LET signals == processStrategy(before.strategy,
                                           marketData).signals
                logged == Len(after.transactions) + Len(after.errors)
                          - Len(before.transactions) - Len(before.errors)
                traded == SubSeq(after.transactions,
                                 Len(before.transactions) + 1,
                                 Len(after.transactions))
            IN  Len(after.errors) > Len(before.errors)
                => /\ logged = Cardinality(Answered(signals, marketData))
                   /\ after.cashBalance = before.cashBalance + NetCash(traded)
    IN  EveryCycle(P)

\* C10: a cycle in which a signal is rejected still answers every signal
\* that asks for a trade, each with one transaction or one error, and its
\* cash moves by the sum of all the trades that went through: the rejected
\* signal ends neither the loop nor the cycle.
C10_RejectionDoesNotAbort == [][C10_Step]_vars

\* the first signal of the cycle was rejected for its price and the three
\* after it traded
C10_Witness ==
    \E session \in Sessions :
        /\ Len(session.errors) = 1
        /\ session.errors[1].message = "invalid price"
        /\ Len(session.transactions) = 3
        /\ session.transactions[1].type = "buy"
        /\ session.transactions[3].type = "sell"

\* EveryCycle for the cycles of SpecTrend
EveryTrendCycle(P(_, _, _)) ==
    \A request \in requests, outcome \in TrendOutcomes :
        ( /\ IsLastAwait(request)
          /\ request.id \in SessionIds
          /\ CtlUpdateResume(request, outcome) )
        => P(paperTradingSessions[request.id],
             ResumeData(request, outcome),
             paperTradingSessions'[request.id])

C11_Step ==
    LET P(before, marketData, after) ==
            processStrategy(before.strategy, marketData).threw
                => \/ Len(after.errors) > Len(before.errors)
                   \/ response' # ""
    IN  EveryTrendCycle(P)

\* C11: when an indicator or a condition throws inside the interpreter
\* during an update cycle, the cycle appends an entry to session.errors or
\* the update request fails.
C11_InterpreterErrorIsSurfaced == [][C11_Step]_vars

C12_Step ==
    \A caller \in Users, id \in SessionIds :
        ( /\ paperTradingSessions[id].status = "stopped"
          /\ CtlStopSession(caller, id) )
        => /\ id \in DOMAIN paperTradingSessions'
           /\ paperTradingSessions'[id].status = "stopped"
           /\ paperTradingSessions'[id].endTime
                = paperTradingSessions[id].endTime

\* C12: a stop request on a session that is already stopped, whether it is
\* refused or served, leaves the status 'stopped' and endTime at the value
\* the first stop gave it.
C12_SecondStopKeepsEndTime == [][C12_Step]_vars

\* the positions without the time of their last update
Unstamped(positions) ==
    [i \in 1..Len(positions) |->
        [symbol |-> positions[i].symbol,
         quantity |-> positions[i].quantity,
         averageCost |-> positions[i].averageCost,
         currentPrice |-> positions[i].currentPrice]]

\* the times at which a call that follows the present step can run
LaterTimes == clock..MaxClock

C13_Step ==
    LET P(before, marketData, after) ==
            processStrategy(before.strategy, marketData).signals = <<>>
                => \A later \in LaterTimes :
                    LET again == UpdateCycle(after, marketData, later)
                    IN  /\ again.metrics = after.metrics
                        /\ Unstamped(again.positions)
                            = Unstamped(after.positions)
                        /\ again.transactions = after.transactions
    IN  EveryTrendCycle(P)

\* C13 (amended): when the strategy produces no signal for the market
\* data, a second update with the same data leaves the metrics, the
\* transactions and, but for lastUpdated, the positions as the first
\* update left them.
C13_SecondUpdateIsIdempotent == [][C13_Step]_vars

C13_OriginalStep ==
    LET P(before, marketData, after) ==
            processStrategy(before.strategy, marketData).signals = <<>>
                => \A later \in LaterTimes :
                    LET again == UpdateCycle(after, marketData, later)
                    IN  /\ again.metrics = after.metrics
                        /\ again.positions = after.positions
                        /\ again.transactions = after.transactions
    IN  EveryTrendCycle(P)

\* C13 as stated: a second update with the same data and no signal leaves
\* metrics and positions identical, lastUpdated included.
C13_SecondUpdateIsIdentical == [][C13_OriginalStep]_vars

\* 5 shares bought at 120 were marked at 90 by a cycle without a signal
C13_Witness ==
    \E session \in Sessions :
        /\ Len(session.transactions) = 1
        /\ \E position \in Range(session.positions) :
                position.quantity = 5 /\ position.currentPrice = 90
        /\ session.metrics.totalPnL = -150

\* the condition blocks of the call that are true on its market data; no
\* block of InterpreterBlocks is an indicator
TrueConditions ==
    {i \in 1..Len(call.strategy.blocks) :
        /\ call.strategy.blocks[i].type = "condition"
        /\ evaluateCondition(call.strategy.blocks[i], call.marketData,
                             NoIndicators).result}

RECURSIVE Produced(_, _, _)
\* the signals of the action blocks from the j-th on that yield one
Produced(blocks, j, marketData) ==
    IF j > Len(blocks) THEN <<>>
    ELSE LET signal == executeAction(blocks[j], marketData, NoIndicators)
         IN  (IF blocks[j].type = "action" /\ ~signal.null
              THEN <<signal>> ELSE <<>>)
             \o Produced(blocks, j + 1, marketData)

RECURSIVE Repeat(_, _)
Repeat(seq, k) == IF k = 0 THEN <<>> ELSE seq \o Repeat(seq, k - 1)

Unmarked(positions) ==
    [i \in 1..Len(positions) |->
        [symbol |-> positions[i].symbol,
         quantity |-> positions[i].quantity,
         averageCost |-> positions[i].averageCost]]

C15_Step ==
    LET P(before, marketData, after) ==
            LET run == processStrategy(before.strategy, marketData)
            IN  run.threw
                    => /\ run.signals = <<>>
                       /\ after.cashBalance = before.cashBalance
                       /\ after.transactions = before.transactions
                       /\ Unmarked(after.positions)
                            = Unmarked(before.positions)
    IN  EveryTrendCycle(P)

\* C15 (amended): when an indicator or a condition block throws, the run
\* returns no signal at all, so the cycle leaves the cash balance and the
\* transactions as they were and leaves symbol, quantity and average cost
\* of every position as they were; the positions are still marked at the
\* market price of the cycle.
C15_ThrowingRunTradesNothing == [][C15_Step]_vars

C15_OriginalStep ==
    LET P(before, marketData, after) ==
            LET run == processStrategy(before.strategy, marketData)
            IN  run.threw
                    => /\ run.signals = <<>>
                       /\ after.cashBalance = before.cashBalance
                       /\ after.transactions = before.transactions
                       /\ after.positions = before.positions
    IN  EveryTrendCycle(P)

\* C15 as stated: a cycle whose run throws changes no cash balance, no
\* position and no transaction.
C15_ThrowingRunChangesNothing == [][C15_OriginalStep]_vars

\* 5 shares bought at 120 on a quote of 130, then a cycle on a quote of 100
\* with a single candle, on which the moving average throws
C15_Witness ==
    \E id \in SessionIds :
        LET session == paperTradingSessions[id]
        IN  /\ session.strategyId = "trend"
            /\ Len(session.transactions) = 1
            /\ Len(session.positions) = 1
            /\ session.positions[1].currentPrice = 100

\* the step is a successful createSession that stores its session under id
Created(id) ==
    \E caller \in Users, strategyId \in AccessStrategyIds,
       initialCapital \in CapitalInputs :
        /\ id = <<caller, strategyId, clock>>
        /\ CtlStartSession(caller, strategyId, initialCapital)
        /\ response' = ""

C16_Step ==
    /\ \A id \in DOMAIN paperTradingSessions' \ SessionIds :
            paperTradingSessions'[id].status = "active"
    /\ \A id \in DOMAIN paperTradingSessions' \cap SessionIds :
            \/ Created(id) /\ paperTradingSessions'[id].status = "active"
            \/ paperTradingSessions'[id].status
                    = paperTradingSessions[id].status
            \/ /\ paperTradingSessions[id].status = "active"
               /\ paperTradingSessions'[id].status = "stopped"
    /\ \A id \in DOMAIN paperTradingSessions' :
            /\ paperTradingSessions'[id].status \in {"active", "stopped"}
            /\ paperTradingSessions'[id].endTime # NoTime
                <=> paperTradingSessions'[id].status = "stopped"

\* C16: a session is active when it is created; whatever request is made,
\* by the owner or by another user, successful or failed, its status only
\* ever changes from active to stopped, and its endTime is set exactly
\* when its status is stopped.  A createSession that stores its session
\* under an id already in the store starts a new session there.
C16_StatusOnlyGoesToStopped == [][C16_Step]_vars

\* a stopped session that has traded, after a request that failed
C16_Witness ==
    \E id \in SessionIds :
        /\ paperTradingSessions[id].status = "stopped"
        /\ paperTradingSessions[id].endTime # NoTime
        /\ Len(paperTradingSessions[id].transactions) > 0
        /\ response # ""

NotFound == "Paper trading session not found"

C17_Step ==
    \A owner \in Users, id \in SessionIds :
        ( /\ paperTradingSessions[id].userId = owner
          /\ CtlDeleteSession(owner, id) )
        => LET store == paperTradingSessions'
           IN  /\ id \notin DOMAIN store
               /\ response' = ""
               /\ \A k \in SessionIds \ {id} :
                        /\ k \in DOMAIN store
                        /\ store[k] = paperTradingSessions[k]
               /\ \A caller \in Users :
                    /\ getSession(store, id, caller).err = NotFound
                    /\ stopSession(store, id, caller, clock).err = NotFound
                    /\ stopSession(store, id, caller, clock).store = store
                    /\ \A session \in getUserSessions(store, caller) :
                            session.id # id
                    /\ deleteSession(store, id, caller).found = FALSE
                    /\ deleteSession(store, id, caller).err = ""
                    /\ deleteSession(store, id, caller).store = store
               /\ \A marketData \in InterpreterData :
                    /\ updateSession(store, id, marketData, clock).err
                            = NotFound
                    /\ updateSession(store, id, marketData, clock).store
                            = store

\* C17: a delete by the owner removes the session, active or stopped, from
\* the store: on the store it leaves, getSession, updateSession and
\* stopSession of that id fail with session not found, getUserSessions does
\* not list the id, and another deleteSession returns false and leaves the
\* store as it is.
C17_DeleteRemovesSession == [][C17_Step]_vars

\* an update was waiting for market data when its session was deleted
C17_Witness ==
    \E request \in requests :
        /\ request.id \notin SessionIds
        /\ response = ""

\* every session but the one under id is in the store after the step as it
\* was before
OthersUnchanged(id) ==
    \A k \in SessionIds \ {id} :
        /\ k \in DOMAIN paperTradingSessions'
        /\ paperTradingSessions'[k] = paperTradingSessions[k]

C18_Step ==
    /\ \A caller \in Owners, id \in IdInputs :
            ( \/ CtlUpdateBegin(caller, id)
              \/ CtlStopSession(caller, id)
              \/ CtlDeleteSession(caller, id) ) => OthersUnchanged(id)
    /\ \A request \in requests, outcome \in PairOutcomes :
            CtlUpdateResume(request, outcome) => OthersUnchanged(request.id)

\* C18: an update, a stop or a delete addressed to one session or to an id
\* that is not in the store, successful or failed, leaves every other
\* session of the store as it was, field by field, also when the other session belongs to
\* the same user and runs the same strategy.
C18_SessionsAreIndependent == [][C18_Step]_vars

\* two sessions of one user and one strategy: one has traded and is
\* stopped, the other has not traded and is active
C18_Witness ==
    \E a \in SessionIds, b \in SessionIds :
        /\ a # b
        /\ paperTradingSessions[a].userId = paperTradingSessions[b].userId
        /\ paperTradingSessions[a].strategyId
            = paperTradingSessions[b].strategyId
        /\ Len(paperTradingSessions[a].transactions) > 0
        /\ paperTradingSessions[a].status = "stopped"
        /\ Len(paperTradingSessions[b].transactions) = 0
        /\ paperTradingSessions[b].status = "active"

\* the places of the sell transactions in a log, and of those with a
\* profit
Sells(transactions) ==
    {i \in 1..Len(transactions) : transactions[i].type = "sell"}
WinningSells(transactions) ==
    {i \in Sells(transactions) : RGtZero(transactions[i].profitLoss)}

C19_Step ==
    LET P(before, marketData, after) ==
            LET total == Cardinality(Sells(after.transactions))
                winning == Cardinality(WinningSells(after.transactions))
            IN  /\ after.metrics.totalTrades = total
                /\ after.metrics.winRate
                    = IF total = 0 THEN Num(0)
                      ELSE Frac(winning * 100, total)
    IN  EveryCycle(P)

\* C19: after every update cycle metrics.totalTrades is the number of sell
\* transactions in the log of the session, buys not counted, and
\* metrics.winRate is 100 times the number of sells with a profit divided
\* by the number of sells, or 0 when the log has no sell.
C19_TradesAreSells == [][C19_Step]_vars

\* two buys and one sell with a profit are logged: one trade, all won
C19_Witness ==
    \E id \in SessionIds :
        LET session == paperTradingSessions[id]
        IN  /\ Len(session.transactions) = 3
            /\ Cardinality(Sells(session.transactions)) = 1
            /\ session.metrics.totalTrades = 1
            /\ session.metrics.winRate = Num(100)

\* the four values of the crossover of the call: current and previous of
\* source1 and of source2
Cur1 ==
    getSourceValue(call.settings.source1Type, call.settings.source1,
                   call.marketData, call.indicators)
Cur2 ==
    getSourceValue(call.settings.source2Type, call.settings.source2,
                   call.marketData, call.indicators)
Prev1 ==
    getPreviousSourceValue(call.settings.source1Type, call.settings.source1,
                           call.marketData, call.indicators)
Prev2 ==
    getPreviousSourceValue(call.settings.source2Type, call.settings.source2,
                           call.marketData, call.indicators)
AllAvailable == Cur1.def /\ Cur2.def /\ Prev1.def /\ Prev2.def

\* the values are whole numbers here: fractions over 1
CrossedAbove == Prev1.v[1] <= Prev2.v[1] /\ Cur1.v[1] > Cur2.v[1]
CrossedBelow == Prev1.v[1] >= Prev2.v[1] /\ Cur1.v[1] < Cur2.v[1]

\* C20: a crossover is true for direction above exactly when
\* prev1 <= prev2 and cur1 > cur2, for below exactly when prev1 >= prev2
\* and cur1 < cur2, for any exactly when one of the two holds, and false
\* for every direction when one of the four values is unavailable.
C20_Crossover ==
    result.done =>
        result.value =
            ( /\ AllAvailable
              /\ CASE call.settings.direction = "above" -> CrossedAbove
                   [] call.settings.direction = "below" -> CrossedBelow
                   [] call.settings.direction = "any" ->
                        CrossedAbove \/ CrossedBelow )

\* source1 was level with source2 and is above it now
C20_Witness ==
    /\ result.done
    /\ result.value
    /\ call.settings.direction = "above"
    /\ AllAvailable
    /\ Prev1.v = Prev2.v
    /\ Cur1.v[1] > Cur2.v[1]

\* a period setting, or its default when it is left out
OrDefault(setting, default) == IF setting # 0 THEN setting ELSE default

\* the number of prices the indicator of the call needs
RequiredPeriods ==
    LET settings == call.block.settings
    IN  CASE call.block.subtype = "sma" ->
                OrDefault(settings.period, DefaultSmaPeriod)
          [] call.block.subtype = "ema" ->
                OrDefault(settings.period, DefaultEmaPeriod)
          [] call.block.subtype = "bb" ->
                OrDefault(settings.period, DefaultBollingerPeriod)
          [] call.block.subtype = "rsi" ->
                OrDefault(settings.period, DefaultRsiPeriod) + 1
          [] call.block.subtype = "macd" ->
                OrDefault(settings.slowPeriod, DefaultSlowPeriod)
                + OrDefault(settings.signalPeriod, DefaultSignalPeriod)

GivenPrices == Len(call.marketData[1].quote.history)

\* C21: an indicator computed on a history shorter than the periods it
\* needs (period for SMA, EMA and Bollinger, period + 1 for RSI,
\* slowPeriod + signalPeriod for MACD) fails and returns no value.
C21_ShortHistoryFails ==
    (result.done /\ GivenPrices < RequiredPeriods)
        => /\ result.value.threw
           /\ "value" \notin DOMAIN result.value

\* an RSI of period 2 on two prices
C21_Witness ==
    /\ result.done
    /\ call.block.subtype = "rsi"
    /\ call.block.settings.period = 2
    /\ GivenPrices = 2
    /\ result.value.threw

C22_Step ==
    /\ \A caller \in Owners, id \in SessionIds :
            CtlUpdateBegin(caller, id)
                => paperTradingSessions' = paperTradingSessions
    /\ \A request \in requests, outcome \in ConcurrentOutcomes :
            CtlUpdateResume(request, outcome)
                => IF ~IsLastAwait(request) \/ request.id \notin SessionIds
                   THEN paperTradingSessions' = paperTradingSessions
                   ELSE paperTradingSessions' =
                            [paperTradingSessions EXCEPT
                                ![request.id] =
                                    UpdateCycle(@,
                                        ResumeData(request, outcome),
                                        clock)]

Traded(before, after) ==
    Len(after.transactions) = Len(before.transactions) + 1

\* the risk of a signal in percent: its riskLevel, else the riskPerTrade of
\* the session
RiskOf(session, signal) ==
    IF "riskLevel" \in DOMAIN signal /\ signal.riskLevel # 0
    THEN signal.riskLevel
    ELSE session.settings.riskPerTrade

C23_Step ==
    LET Q(before, signal, marketData, after) ==
            ( /\ IsBuy(signal) \/ IsSellSignal(signal)
              /\ signal.quantity = 0
              /\ Traded(before, after) )
            => LET t == after.transactions[Len(after.transactions)]
               IN  /\ t.price = IF signal.price # 0 THEN signal.price
                                ELSE MdPrice(marketData, signal.symbol)
                   /\ t.quantity * 100 * t.price
                        <= before.cashBalance * RiskOf(before, signal)
                   /\ (t.quantity + 1) * 100 * t.price
                        > before.cashBalance * RiskOf(before, signal)
    IN  EverySignal(Q)

C24_OnePositionPerSymbol ==
    \A session \in Sessions :
        \A i \in 1..Len(session.positions), j \in 1..Len(session.positions) :
            session.positions[i].symbol = session.positions[j].symbol
                => i = j

\* two symbols held after three trades: SPY bought and sold in part, QQQ
\* bought
C24_Witness ==
    \E session \in Sessions :
        /\ Len(session.transactions) = 3
        /\ Len(session.positions) = 2
        /\ session.positions[1].symbol = "SPY"
        /\ session.positions[1].quantity = 1
        /\ session.positions[2].symbol = "QQQ"

IsStop(signal) == signal.action \in {"stop_loss", "take_profit"}

C25_Step ==
    LET Q(before, signal, marketData, after) ==
            (IsStop(signal) /\ PriceOf(signal, marketData) > 0)
                => after = before
        P(before, marketData, after) ==
            LET signals == processStrategy(before.strategy,
                                           marketData).signals
            IN  (\A k \in 1..Len(signals) : ~IsSellSignal(signals[k]))
                    => Cardinality(Sells(after.transactions))
                        = Cardinality(Sells(before.transactions))
    IN  EverySignal(Q) /\ EveryCycle(P)

RECURSIVE CostBasis(_)
CostBasis(positions) ==
    IF positions = <<>> THEN Num(0)
    ELSE RAdd(RMul(Num(Head(positions).quantity), Head(positions).averageCost),
              CostBasis(Tail(positions)))

\* the sum of profitLoss over the sell transactions
RECURSIVE RealizedProfit(_)
RealizedProfit(transactions) ==
    IF transactions = <<>> THEN Num(0)
    ELSE IF Head(transactions).type = "sell"
    THEN RAdd(Head(transactions).profitLoss,
              RealizedProfit(Tail(transactions)))
    ELSE RealizedProfit(Tail(transactions))

Conserved(session) ==
    REq(RAdd(Num(session.cashBalance), CostBasis(session.positions)),
        RAdd(Num(session.initialCapital),
             RealizedProfit(session.transactions)))

\* C26: in every session of the store, cashBalance plus the sum of
\* quantity * averageCost over the open positions equals initialCapital plus
\* the sum of profitLoss over the sell transactions.
C26_CostBasisIsConserved == \A session \in Sessions : Conserved(session)

\* C27: every transaction of every session has a quantity of 1 or more, and
\* the completed and the losing trades counted in the metrics are sells of
\* 1 share or more.
C27_TransactionsArePositive ==
    \A session \in Sessions :
        /\ \A k \in 1..Len(session.transactions) :
               session.transactions[k].quantity >= 1
        /\ session.metrics.totalTrades
               = Cardinality({k \in 1..Len(session.transactions) :
                                /\ IsSell(session.transactions[k])
                                /\ session.transactions[k].quantity >= 1})
        /\ session.metrics.losingTrades
               = Cardinality({k \in 1..Len(session.transactions) :
                                /\ IsLosingSell(session.transactions[k])
                                /\ session.transactions[k].quantity >= 1})

IsPrefix(old, new) ==
    /\ Len(old) <= Len(new)
    /\ SubSeq(new, 1, Len(old)) = old

\* the step is a createSession that stores a new session object under id
Replaced(id) ==
    \E caller \in Users, strategyId \in StrategyIds,
       initialCapital \in CapitalInputs :
        /\ id = <<caller, strategyId, clock>>
        /\ CtlStartSession(caller, strategyId, initialCapital)
        /\ response' = ""

C28_Step ==
    \A id \in SessionIds \cap DOMAIN paperTradingSessions' :
        \/ Replaced(id)
        \/ /\ IsPrefix(paperTradingSessions[id].transactions,
                       paperTradingSessions'[id].transactions)
           /\ IsPrefix(paperTradingSessions[id].errors,
                       paperTradingSessions'[id].errors)

\* C28: whatever request is made, the transactions and the errors of a
\* session that stays in the store keep every entry they had, in place and
\* unchanged, and new entries are added at the end.  (A createSession that
\* stores a new session object under the same id starts new lists; the old
\* object is not modified.)
C28_ListsAreAppendOnly == [][C28_Step]_vars

\* a session that has logged a trade and two errors, and was then stopped
C28_Witness ==
    \E session \in Sessions :
        /\ Len(session.transactions) >= 1
        /\ Len(session.errors) = 2
        /\ session.status = "stopped"

C29_Step ==
    \A caller \in Users, strategyId \in StrategyIds,
       initialCapital \in PairCapitalInputs :
        (CtlStartSession(caller, strategyId, initialCapital)
         /\ response' = "")
            => /\ SessionIds \subseteq DOMAIN paperTradingSessions'
               /\ Cardinality(DOMAIN paperTradingSessions')
                    = Cardinality(SessionIds) + 1
               /\ \A id \in SessionIds :
                    paperTradingSessions'[id] = paperTradingSessions[id]

\* C29: a successful createSession adds one session to the store and leaves
\* every session already there in place and as it was, also when the same
\* user starts the same strategy twice within one clock millisecond.
C29_CreateNeverReplaces == [][C29_Step]_vars

C30_Step ==
    \A request \in requests, outcome \in ConcurrentOutcomes :
        ( /\ request.id \notin SessionIds
          /\ CtlUpdateResume(request, outcome) )
        => /\ paperTradingSessions' = paperTradingSessions
           /\ IF IsLastAwait(request)
              THEN /\ response' = NotFound
                   /\ request \notin requests'
              ELSE response' = response

\* C30: when an update request gets its market data and its session is no
\* longer in the store, the request fails with session not found once the
\* last symbol is fetched, no session is changed and the deleted session is
\* not put back into the store.
C30_UpdateAfterDeleteFails == [][C30_Step]_vars

\* an update of a deleted session has failed: the requests of this
\* specification name sessions that were in the store when they began
C30_Witness ==
    /\ response = NotFound
    /\ SessionIds = {}
    /\ requests = {}
====
